---- MODULE Spec2Model ----
(***************************************************************************)
(* bacon-ls: the diagnostic ingestion engine.                              *)
(*                                                                         *)
(* Text is held as TLA+ strings and taken apart character by character     *)
(* with Len and SubSeq, so the parser, the reader and the prefix tests     *)
(* work on the characters the Rust code works on.                          *)
(***************************************************************************)
EXTENDS Integers, Sequences, FiniteSets, TLC

(***************************************************************************)
(* Bounds of the model.                                                    *)
(***************************************************************************)
\* positions 0..MaxPos are rendered as decimal text in the parser inputs
MaxPos == 2
\* the parser is fed records of 0..MaxFields delimiter separated fields
MaxFields == 11
\* the Deduplicator harness performs at most MaxAdds Add operations
MaxAdds == 4
\* the first export file holds at most MaxRecords records
MaxRecords == 2

(***************************************************************************)
(* std::str helpers.                                                       *)
(***************************************************************************)
\* str::starts_with
starts_with(s, pat) ==
  Len(s) >= Len(pat) /\ SubSeq(s, 1, Len(pat)) = pat

\* str::ends_with
ends_with(s, pat) ==
  Len(s) >= Len(pat) /\ SubSeq(s, Len(s) - Len(pat) + 1, Len(s)) = pat

\* str::find from index i (1-based): the least index >= i at which pat
\* occurs in s, 0 when there is none
RECURSIVE find(_, _, _)
find(s, pat, i) ==
  IF i + Len(pat) - 1 > Len(s) THEN 0
  ELSE IF SubSeq(s, i, i + Len(pat) - 1) = pat THEN i
  ELSE find(s, pat, i + 1)

\* str::splitn(n, pat): at most n items, the last one holds the remainder
RECURSIVE splitn(_, _, _)
splitn(s, n, pat) ==
  LET i == find(s, pat, 1) IN
  IF n <= 1 \/ i = 0 THEN <<s>>
  ELSE <<SubSeq(s, 1, i - 1)>> \o splitn(SubSeq(s, i + Len(pat), Len(s)), n - 1, pat)

\* str::split(pat): every item
RECURSIVE split(_, _)
split(s, pat) ==
  LET i == find(s, pat, 1) IN
  IF i = 0 THEN <<s>>
  ELSE <<SubSeq(s, 1, i - 1)>> \o split(SubSeq(s, i + Len(pat), Len(s)), pat)

\* str::replace(from, to)
RECURSIVE replace(_, _, _)
replace(s, from, to) ==
  LET i == find(s, from, 1) IN
  IF i = 0 THEN s
  ELSE SubSeq(s, 1, i - 1) \o to \o replace(SubSeq(s, i + Len(from), Len(s)), from, to)

\* str::trim_end_matches(c): every trailing c is removed
RECURSIVE trim_end_matches(_, _)
trim_end_matches(s, c) ==
  IF ends_with(s, c) THEN trim_end_matches(SubSeq(s, 1, Len(s) - Len(c)), c) ELSE s

\* char::is_whitespace, for the characters the model uses
WhiteSpace == {" ", "\t", "\n", "\r"}

\* str::trim_end: trailing whitespace is removed, leading whitespace is kept
RECURSIVE trim_end(_)
trim_end(s) ==
  IF Len(s) > 0 /\ SubSeq(s, Len(s), Len(s)) \in WhiteSpace
  THEN trim_end(SubSeq(s, 1, Len(s) - 1)) ELSE s

\* [T]::join(sep) on strings
RECURSIVE join(_, _)
join(items, sep) ==
  IF Len(items) = 0 THEN ""
  ELSE IF Len(items) = 1 THEN items[1]
  ELSE items[1] \o sep \o join(Tail(items), sep)

Digits == "0123456789"

\* the value of a decimal digit character, -1 for any other character
DigitValue(c) ==
  LET i == find(Digits, c, 1) IN IF Len(c) = 1 /\ i > 0 THEN i - 1 ELSE -1

\* u32 values are held in TLC's 32 bit integers: a value v >= 2^31 is held as
\* its two's complement image v - 2^32, so 4294967295 is held as -1
RECURSIVE parse_digits(_, _, _)
parse_digits(s, i, acc) ==
  IF i > Len(s) THEN <<acc>>
  ELSE LET d == DigitValue(SubSeq(s, i, i)) IN
    IF d < 0 \/ acc < 0 THEN <<>>
    ELSE IF acc > 429496729 \/ (acc = 429496729 /\ d > 5) THEN <<>>
    ELSE IF acc > 214748364 \/ (acc = 214748364 /\ d > 7)
      THEN parse_digits(s, i + 1, (acc - 322122547) * 10 + d - 1073741826)
      ELSE parse_digits(s, i + 1, acc * 10 + d)

\* <u32 as FromStr>::from_str: Some(value) as <<value>>, Err as <<>>.
\* An optional leading + is accepted, a leading - is not, nor is the empty
\* string, whitespace or a value above u32::MAX.
parse_u32(s) ==
  LET digits == IF starts_with(s, "+") THEN SubSeq(s, 2, Len(s)) ELSE s IN
  IF Len(digits) = 0 THEN <<>> ELSE parse_digits(digits, 1, 0)

\* decimal rendering of a natural number (format!("{}", n))
RECURSIVE to_string(_)
to_string(n) ==
  IF n < 10 THEN SubSeq(Digits, n + 1, n + 1)
  ELSE to_string(n \div 10) \o SubSeq(Digits, (n % 10) + 1, (n % 10) + 1)

(***************************************************************************)
(* ansi_regex::ansi_regex().replace_all(s, "").  The escape byte U+001B    *)
(* cannot be written in a TLA+ string; the form feed "\f" stands for it.   *)
(* A sequence is the escape byte, any run of the bracket characters, an    *)
(* optional run of numeric parameters and one final byte.                  *)
(***************************************************************************)
ESC == "\f"
AnsiBrackets == {"[", "]", "(", ")", "#", ";", "?"}
AnsiParams == {"0", "1", "2", "3", "4", "5", "6", "7", "8", "9", ";"}
AnsiFinal == {"m", "K", "H", "J", "A", "B", "C", "D", "G", "f", "n", "c", "r", "y"}

\* the index after the longest run, from index i, of characters of set
RECURSIVE skip_run(_, _, _)
skip_run(s, i, set) ==
  IF i <= Len(s) /\ SubSeq(s, i, i) \in set THEN skip_run(s, i + 1, set) ELSE i

\* the index after the escape sequence that starts at index i (where the
\* escape byte is), or i itself when no sequence starts there
ansi_match_end(s, i) ==
  LET b == skip_run(s, i + 1, AnsiBrackets)
      p == skip_run(s, b, AnsiParams)
  IN IF p <= Len(s) /\ SubSeq(s, p, p) \in AnsiFinal THEN p + 1
     ELSE IF p > b /\ SubSeq(s, p - 1, p - 1) # ";" THEN p
     ELSE i

RECURSIVE strip_ansi(_)
strip_ansi(s) ==
  LET i == find(s, ESC, 1) IN
  IF i = 0 THEN s
  ELSE LET e == ansi_match_end(s, i) IN
    IF e = i THEN SubSeq(s, 1, i) \o strip_ansi(SubSeq(s, i + 1, Len(s)))
    ELSE SubSeq(s, 1, i - 1) \o strip_ansi(SubSeq(s, e, Len(s)))

(***************************************************************************)
(* Option, Path and Url.                                                   *)
(***************************************************************************)
None == <<>>
Some(v) == <<v>>

\* Path::join: an absolute argument replaces the base
path_join(base, p) ==
  IF starts_with(p, "/") THEN p
  ELSE IF ends_with(base, "/") THEN base \o p
  ELSE base \o "/" \o p

\* Url::parse(&format!("file://{}", path)) for an absolute path of plain
\* characters: the text itself is the document identifier
file_url(path) == "file://" \o path

\* Url::path of such a document identifier
url_path(url) == SubSeq(url, Len("file://") + 1, Len(url))

(***************************************************************************)
(* LineFormatParser: Bacon::parse_bacon_diagnostic_line.                   *)
(***************************************************************************)
PKG_NAME == "bacon-ls"
DELIMITER == "|:|"

parse_severity_failure_note_as_warning(severity_str) ==
  CASE severity_str \in {"warning", "failure-note"} -> "WARNING"
    [] severity_str \in {"info", "information", "note"} -> "INFORMATION"
    [] severity_str \in {"hint", "help"} -> "HINT"
    [] OTHER -> "ERROR"

parse_severity(severity_str) ==
  CASE severity_str = "warning" -> "WARNING"
    [] severity_str \in {"info", "information", "note", "failure-note"} -> "INFORMATION"
    [] severity_str \in {"hint", "help"} -> "HINT"
    [] OTHER -> "ERROR"

\* Some((line_start, line_end, column_start, column_end)) or None
collect_positions(line_start, line_end, column_start, column_end) ==
  IF line_start = None \/ line_end = None \/ column_start = None \/ column_end = None
  THEN None
  ELSE Some(<<line_start[1], line_end[1], column_start[1], column_end[1]>>)

parse_positions(fields) ==
  collect_positions(parse_u32(fields[1]), parse_u32(fields[2]),
                    parse_u32(fields[3]), parse_u32(fields[4]))

\* u32 `a - 1` without overflow checks (release profile): 0 - 1 wraps to
\* u32::MAX, held as -1
wrapping_sub_one(a) == IF a = 0 THEN -1 ELSE a - 1

Position(line, character) == [line |-> line, character |-> character]
Range(start, end) == [start |-> start, end |-> end]

diagnostic_range_not_shifted(line_start, line_end, column_start, column_end) ==
  Range(Position(line_start, column_start), Position(line_end, column_end))

\* the range of the diagnostic
diagnostic_range(line_start, line_end, column_start, column_end) ==
  Range(Position(wrapping_sub_one(line_start), wrapping_sub_one(column_start)),
        Position(wrapping_sub_one(line_end), wrapping_sub_one(column_end)))

diagnostic_message_prefers_message(message_field, rendered_message) ==
  IF message_field # "none"
  THEN trim_end_matches(replace(message_field, "\\n", "\n"), "\n")
  ELSE trim_end_matches(strip_ansi(rendered_message), "\n")

\* the message of the diagnostic
diagnostic_message(message_field, rendered_message) ==
  IF rendered_message # "none"
  THEN trim_end_matches(strip_ansi(rendered_message), "\n")
  ELSE trim_end_matches(replace(message_field, "\\n", "\n"), "\n")

diagnostic_data_when_not_empty(replacement) ==
  IF replacement # "" THEN Some([corrections |-> <<replacement>>]) ELSE None

\* the data of the diagnostic: DiagnosticData { corrections: vec![replacement] }
diagnostic_data(replacement) ==
  IF replacement # "none" THEN Some([corrections |-> <<replacement>>]) ELSE None

split_line_at_every_delimiter(line) == split(line, DELIMITER)

\* line.splitn(9, "|:|").collect()
split_line(line) == splitn(line, 9, DELIMITER)

\* The outcome of the parser is [kind |-> "None"], [kind |-> "Some",
\* path |-> Url, diagnostic |-> Diagnostic] or, when a subtraction overflows
\* in a build with overflow checks, [kind |-> "Panic"].

\* from `let path = match Url::parse(..)` to the end, the positions parsed
parsed_diagnostic(line_split, file_path, values, overflow_checks) ==
  IF overflow_checks /\ 0 \in {values[1], values[2], values[3], values[4]}
  THEN [kind |-> "Panic"]
  ELSE [kind |-> "Some",
        path |-> file_url(file_path),
        diagnostic |->
          [range |-> diagnostic_range(values[1], values[2], values[3], values[4]),
           severity |-> parse_severity(line_split[1]),
           source |-> PKG_NAME,
           message |-> diagnostic_message(line_split[7], line_split[8]),
           data |-> diagnostic_data(line_split[9])]]

\* from `let (line_start, line_end, column_start, column_end) = match ..` on
parsed_positions(line_split, folder_path, positions, overflow_checks) ==
  IF positions = None THEN [kind |-> "None"]
  ELSE parsed_diagnostic(line_split, path_join(folder_path, line_split[2]),
                         positions[1], overflow_checks)

\* from `if line_split.len() != 9` on
parsed_fields(line_split, folder_path, overflow_checks) ==
  IF Len(line_split) # 9 THEN [kind |-> "None"]
  ELSE parsed_positions(line_split, folder_path,
                        parse_positions(SubSeq(line_split, 3, 6)), overflow_checks)

parse_bacon_diagnostic_line(line, folder_path, overflow_checks) ==
  parsed_fields(split_line(line), folder_path, overflow_checks)

(***************************************************************************)
(* Deduplicator.                                                           *)
(***************************************************************************)
\* the identity test of both backends: range, severity and message
same_diagnostic(diagnostic, existing_diagnostic) ==
  /\ diagnostic.range = existing_diagnostic.range
  /\ diagnostic.severity = existing_diagnostic.severity
  /\ diagnostic.message = existing_diagnostic.message

deduplicate_diagnostics_comparing_data(path, uri, diagnostic, diagnostics) ==
  IF /\ path = uri
     /\ ~ \E i \in 1..Len(diagnostics) :
            /\ url_path(diagnostics[i].path) = url_path(path)
            /\ diagnostic = diagnostics[i].diagnostic
  THEN Append(diagnostics, [path |-> path, diagnostic |-> diagnostic])
  ELSE diagnostics

deduplicate_diagnostics_keeping_last(path, uri, diagnostic, diagnostics) ==
  IF path = uri
  THEN Append(SelectSeq(diagnostics,
                        LAMBDA e : ~ same_diagnostic(diagnostic, e.diagnostic)),
              [path |-> path, diagnostic |-> diagnostic])
  ELSE diagnostics

deduplicate_diagnostics_without_filter(path, uri, diagnostic, diagnostics) ==
  IF ~ \E i \in 1..Len(diagnostics) :
         /\ url_path(diagnostics[i].path) = url_path(path)
         /\ same_diagnostic(diagnostic, diagnostics[i].diagnostic)
  THEN Append(diagnostics, [path |-> path, diagnostic |-> diagnostic])
  ELSE diagnostics

\* Bacon::deduplicate_diagnostics: the new value of the Vec<(Url, Diagnostic)>
deduplicate_diagnostics(path, uri, diagnostic, diagnostics) ==
  IF /\ path = uri
     /\ ~ \E i \in 1..Len(diagnostics) :
            /\ url_path(diagnostics[i].path) = url_path(path)
            /\ same_diagnostic(diagnostic, diagnostics[i].diagnostic)
  THEN Append(diagnostics, [path |-> path, diagnostic |-> diagnostic])
  ELSE diagnostics

\* Cargo::maybe_add_diagnostic from `diagnostics.entry(url).or_default()` on:
\* the new value of the HashMap<Uri, Vec<Diagnostic>>, a function whose
\* domain is the set of keys
maybe_add_diagnostic(url, diagnostic, diagnostics) ==
  LET existing == IF url \in DOMAIN diagnostics THEN diagnostics[url] ELSE <<>>
      updated ==
        IF ~ \E i \in 1..Len(existing) : same_diagnostic(diagnostic, existing[i])
        THEN Append(existing, diagnostic)
        ELSE existing
  IN [u \in (DOMAIN diagnostics) \cup {url} |->
        IF u = url THEN updated ELSE diagnostics[u]]

\* BaconLs::deduplicate_diagnostics, the snapshot operation's Add: uri is an
\* Option<&Url>, compared with Some(&path)
BaconLs_deduplicate_diagnostics(path, uri, diagnostic, diagnostics) ==
  IF /\ Some(path) = uri
     /\ ~ \E i \in 1..Len(diagnostics) :
            /\ url_path(diagnostics[i].path) = url_path(path)
            /\ same_diagnostic(diagnostic, diagnostics[i].diagnostic)
  THEN Append(diagnostics, [path |-> path, diagnostic |-> diagnostic])
  ELSE diagnostics

(***************************************************************************)
(* LocationsFileReader: the pieces of Bacon::diagnostics.                  *)
(***************************************************************************)
LOCATIONS_FILE == ".bacon-locations"

\* BufReader::lines: the text is cut at every "\n", a "\r" before it is
\* dropped, and text after the last "\n" is a line of its own
RECURSIVE text_lines(_)
text_lines(text) ==
  IF text = "" THEN <<>>
  ELSE LET i == find(text, "\n", 1) IN
    IF i = 0 THEN <<text>>
    ELSE <<trim_end_matches(SubSeq(text, 1, i - 1), "\r")>>
           \o text_lines(SubSeq(text, i + 1, Len(text)))

\* the first word test that starts a new diagnostic
is_new_diagnostic(trimmed) ==
  \/ starts_with(trimmed, "warning")
  \/ starts_with(trimmed, "error")
  \/ starts_with(trimmed, "info")
  \/ starts_with(trimmed, "note")
  \/ starts_with(trimmed, "failure-note")
  \/ starts_with(trimmed, "help")

\* `if let Some((path, diagnostic)) = .. { deduplicate_diagnostics(..) }`
add_outcome(outcome, for_uri, into) ==
  [diagnostics |->
     IF outcome.kind = "Some"
     THEN deduplicate_diagnostics(outcome.path, for_uri, outcome.diagnostic, into)
     ELSE into,
   panicked |-> outcome.kind = "Panic"]

\* `if !buffer.is_empty() { if let Some(..) = parse_bacon_diagnostic_line(..) .. }`
process_buffer(buffer, folder_path, for_uri, into, checks) ==
  IF buffer = "" THEN [diagnostics |-> into, panicked |-> FALSE]
  ELSE add_outcome(parse_bacon_diagnostic_line(buffer, folder_path, checks),
                   for_uri, into)

\* `if !buffer.is_empty() { buffer.push('\n') } buffer.push_str(trimmed)`
append_line(buffer, trimmed) ==
  IF buffer # "" THEN buffer \o "\n" \o trimmed ELSE trimmed

\* the body of the loop for the trimmed line: the buffer and, under `flushed`,
\* the diagnostics after it
read_trimmed(trimmed, buffer, folder_path, for_uri, into, checks) ==
  IF is_new_diagnostic(trimmed)
  THEN [buffer |-> append_line("", trimmed),
        flushed |-> process_buffer(buffer, folder_path, for_uri, into, checks)]
  ELSE [buffer |-> append_line(buffer, trimmed),
        flushed |-> [diagnostics |-> into, panicked |-> FALSE]]

\* str::trim: leading and trailing whitespace is removed
RECURSIVE trim(_)
trim(s) ==
  IF Len(s) > 0 /\ SubSeq(s, 1, 1) \in WhiteSpace
  THEN trim(SubSeq(s, 2, Len(s))) ELSE trim_end(s)

\* the loop written with `line.trim()`
read_line_trimming_both_ends(physical_line, buffer, folder_path, for_uri, into, checks) ==
  read_trimmed(trim(physical_line), buffer, folder_path, for_uri, into, checks)

\* the body of the `while let Some(line)` loop
read_line(physical_line, buffer, folder_path, for_uri, into, checks) ==
  read_trimmed(trim_end(physical_line), buffer, folder_path, for_uri, into, checks)

\* the flush of the remaining buffer after the loop
end_of_file(buffer, folder_path, for_uri, into, checks) ==
  process_buffer(buffer, folder_path, for_uri, into, checks)

\* Path::is_dir ancestry: path lies under the directory root
is_under(path, root) == starts_with(path, root \o "/")

\* Path::file_name of a path
RECURSIVE file_name(_)
file_name(path) ==
  LET i == find(path, "/", 1) IN
  IF i = 0 THEN path ELSE file_name(SubSeq(path, i + 1, Len(path)))

\* Bacon::find_bacon_locations: the files named locations_file_name under
\* root, as a set (fs::read_dir yields them in an order of its own)
find_bacon_locations(root, locations_file_name, all_files) ==
  {path \in all_files : is_under(path, root) /\ file_name(path) = locations_file_name}

\* `if let Some(git_root) = find_git_root_directory(&folder_path)`: the
\* directory the records of a workspace folder are resolved against
effective_folder_path(folder, git_root_found) ==
  IF git_root_found # None THEN git_root_found[1] ELSE folder

(***************************************************************************)
(* State.                                                                  *)
(***************************************************************************)
VARIABLES
  overflow_checks,    \* the build profile: TRUE when arithmetic overflow panics
  line,               \* parser harness: the record given to the parser
  parsed,             \* parser harness: what the parser returned for it
  uri,                \* the document the diagnostics are requested for
  diagnostics,        \* Bacon: the Vec<(Url, Diagnostic)> being built
  cargo_diagnostics,  \* Cargo: the HashMap<Uri, Vec<Diagnostic>> being built
  bacon_added,        \* history: every (path, diagnostic) given to Bacon's Add
  cargo_added,        \* history: every (url, diagnostic) given to Cargo's Add
  workspace_folders,  \* the folders the editor sent, in order
  git_root,           \* what find_git_root_directory answers: None or Some(dir)
  files,              \* the export files on disk: path -> readable, records written
  rpc,                \* reader: "idle", "folder", "file", "line", "done", "panicked"
  folder_i,           \* reader: index of the current workspace folder
  folder_path,        \* reader: the directory records are resolved against
  bacon_locations,    \* reader: the export files found for the current folder
  file_i,             \* reader: index of the current export file
  lines,              \* reader: the lines of the current file not yet read
  buffer,             \* reader: the record being assembled
  client,             \* service: TRUE when the editor's client is connected
  initialize_pc,      \* `initialize`: "idle", "none", "git_root", "returned", or its error
  backend,            \* State: the backend, "Bacon" or "Cargo"
  run_bacon_in_background, \* State: whether `initialized` starts bacon
  sync_fn,            \* which synchronization function the task runs
  cancel_token,       \* State: TRUE once the CancellationToken is cancelled
  state_writer,       \* who holds the write lock of the State: "none" or a handler
  bacon_command_handle, \* State: None or Some(handle of the supervisor task)
  sync_files_handle,  \* State: None or Some(handle of the synchronization task)
  open_files,         \* State: the set of open documents
  initialized_pc,     \* `initialized`: "idle", "start", "run_bacon", "match", "sync", "returned"
  run_result,         \* what run_in_background returned: "none", "Ok", "Err"
  shown,              \* the ERROR messages shown to the user, in order
  spawns,             \* how many times command.spawn() was called
  child,              \* the bacon process: "none", "running", "exited", "killed"
  supervisor,         \* the task run_in_background spawns: "none", "waiting", "finished"
  shutdown_pc,        \* `shutdown`: "idle", "none", "join_bacon", "sync_handle", "join_sync", "log", "returned"
  sync_pc,            \* synchronization task: "none", "start", "watch", "sleep", "select", "lock", "publish", "returned", "panicked"
  path_exists,        \* whether the watched export path exists
  rx,                 \* the flume channel: the batches sent and not yet received
  batches,            \* how many batches the debouncer has delivered
  trigger,            \* the batch that started the pass in progress, or None
  pass_files,         \* the open documents the pass in progress has yet to publish
  pass_open,          \* the open documents the pass in progress cloned from the State
  pass_published,     \* the publishes the pass in progress has made, in order
  export,             \* the export files of bacon: document -> the diagnostics read for it
  last_publish,       \* the latest publish made to the client, or None
  opens,              \* how many documents were inserted into the open files
  stdout,             \* Cargo: the lines of the standard output of the cargo run
  stdout_i,           \* Cargo: index of the line of stdout that is decoded next
  cargo_result,       \* Cargo: "idle", "start", "running", or what was returned
  child_command,      \* Cargo: None, or Some(the Command of the child that was run)
  notified,           \* how many notifications about documents were handled
  last_notification,  \* the latest of them, or None
  pending,            \* the publish a handler has computed and not yet sent, or None
  earlier             \* reader: None, or Some(the files and the result of the pass before)

parser_vars == <<line, parsed>>
dedup_vars == <<cargo_diagnostics, bacon_added, cargo_added>>
env_vars == <<workspace_folders, git_root, files>>
reader_vars == <<rpc, folder_i, folder_path, bacon_locations, file_i, lines, buffer>>
session_vars == <<client, run_bacon_in_background, sync_fn, cancel_token, state_writer,
                  bacon_command_handle, sync_files_handle, open_files, opens>>
initialize_vars == <<initialize_pc, backend>>
initialized_vars == <<initialized_pc, run_result, shown, spawns>>
supervisor_vars == <<child, supervisor>>
sync_vars == <<sync_pc, path_exists, rx, batches, trigger, pass_files, pass_open,
               pass_published>>
cargo_vars == <<stdout, stdout_i, cargo_result, child_command>>
documents_vars == <<notified, last_notification, pending>>
service_vars == <<initialize_vars, session_vars, initialized_vars, supervisor_vars,
                  shutdown_pc, sync_vars,
                  last_publish, export, documents_vars, earlier>>
vars == <<overflow_checks, line, parsed, uri, diagnostics, cargo_diagnostics,
          bacon_added, cargo_added, workspace_folders, git_root, files,
          rpc, folder_i, folder_path, bacon_locations, file_i, lines, buffer,
          service_vars, cargo_vars>>

NotParsed == [kind |-> "NotParsed"]
EmptyMap == [u \in {} |-> <<>>]

ParserIdle == line = "" /\ parsed = NotParsed
DedupIdle == cargo_diagnostics = EmptyMap /\ bacon_added = <<>> /\ cargo_added = <<>>
ReaderIdle ==
  /\ workspace_folders = <<>> /\ git_root = None /\ files = EmptyMap
  /\ rpc = "idle" /\ folder_i = 0 /\ folder_path = "" /\ bacon_locations = <<>>
  /\ file_i = 0 /\ lines = <<>> /\ buffer = ""

CargoIdle ==
  stdout = <<>> /\ stdout_i = 0 /\ cargo_result = "idle" /\ child_command = None
ServiceIdle ==
  /\ client = FALSE /\ run_bacon_in_background = FALSE /\ sync_fn = ""
  /\ initialize_pc = "idle" /\ backend = ""
  /\ cancel_token = FALSE /\ state_writer = "none"
  /\ bacon_command_handle = None /\ sync_files_handle = None /\ open_files = {}
  /\ opens = 0
  /\ initialized_pc = "idle" /\ run_result = "none" /\ shown = <<>> /\ spawns = 0
  /\ child = "none" /\ supervisor = "none" /\ shutdown_pc = "idle"
  /\ sync_pc = "none" /\ path_exists = FALSE /\ rx = <<>> /\ batches = 0
  /\ trigger = None /\ pass_files = <<>> /\ last_publish = None
  /\ pass_open = {} /\ pass_published = <<>> /\ export = <<>>
  /\ notified = 0 /\ last_notification = None /\ pending = None
  /\ earlier = None

(***************************************************************************)
(* The parser harness: one record, parsed once.                            *)
(***************************************************************************)
FOLDER == "/w"

Severities ==
  {"warning", "error", "info", "information", "note", "failure-note", "hint",
   "help", "Warning", "ERROR", "Help", "bug", ""}
FilePaths == {"src/lib.rs", "/w/src/lib.rs"}
PositionTexts == {to_string(n) : n \in (1..MaxPos) \cup {5, 10}}
\* position fields that are not positive integers
NotPositiveTexts == {"0", "-1", "", "x", "1.5", " 1"}
\* position fields at the limits of u32
LimitTexts == {"4294967295", "4294967296", "+1"}
Messages == {"bad code", "first\\nsecond", "ends\\n", "none", ""}
Rendered ==
  {"none", "error: bad", "\f[1merror\f[0m: bad\n", "l1\nl2\n\n", "",
   "warning: \f[38;5;9munused\f[m\n"}
Replacements == {"none", "fix", "", "None", "if x {\n    y\n}"}

Record(severity, file, ls, le, cs, ce, message, rendered, replacement) ==
  join(<<severity, file, ls, le, cs, ce, message, rendered, replacement>>, DELIMITER)

\* the scenario record of the specification and the malformed lines of
\* test_parse_bacon_diagnostic_line_with_spans_ko
ScenarioLine == "error|:|src/lib.rs|:|10|:|10|:|1|:|5|:|bad code|:|none|:|none"
KoLines == {"warning:/file:1:1", ""}

SmallPositions == {to_string(n) : n \in 1..MaxPos}

SeverityRecords ==
  {Record(sv, f, ls, le, cs, ce, "bad code", "none", "none") :
     sv \in Severities, f \in FilePaths,
     ls \in SmallPositions, le \in SmallPositions,
     cs \in SmallPositions, ce \in SmallPositions}

\* one of the four position fields is replaced by an arbitrary text
PositionRecords ==
  {join([k \in 1..9 |->
           IF k = i THEN t
           ELSE <<"error", "src/lib.rs", a, b, a, b, "bad code", "none", "fix">>[k]],
        DELIMITER) :
     i \in 3..6, t \in NotPositiveTexts \cup LimitTexts \cup PositionTexts,
     a \in SmallPositions, b \in SmallPositions}

MessageRecords ==
  {Record("warning", "src/lib.rs", "1", "2", "2", "1", m, r, c) :
     m \in Messages, r \in Rendered, c \in Replacements}

\* records of k fields, k in 0..MaxFields: the fields of a valid record
\* followed by further text
FieldAt(k) ==
  IF k <= 9
  THEN <<"help", "/w/src/lib.rs", "1", "1", "2", "5", "bad code", "none", "a">>[k]
  ELSE "b"
FieldCountRecords ==
  {join([k \in 1..n |-> FieldAt(k)], DELIMITER) : n \in 0..MaxFields}

ParserInputs ==
  SeverityRecords \cup PositionRecords \cup MessageRecords \cup FieldCountRecords
    \cup {ScenarioLine} \cup KoLines

InitParse ==
  /\ overflow_checks \in BOOLEAN
  /\ line \in ParserInputs
  /\ parsed = NotParsed
  /\ uri = "" /\ diagnostics = <<>>
  /\ DedupIdle
  /\ ReaderIdle
  /\ ServiceIdle
  /\ CargoIdle

ParseLine ==
  /\ parsed = NotParsed
  /\ parsed' = parse_bacon_diagnostic_line(line, FOLDER, overflow_checks)
  /\ UNCHANGED <<cargo_vars, service_vars, overflow_checks, line, uri, diagnostics,
                 dedup_vars, env_vars, reader_vars>>

NextParse == ParseLine

SpecParse == InitParse /\ [][NextParse]_vars

(***************************************************************************)
(* The Deduplicator harness: any sequence of Add operations of the two     *)
(* backends.                                                               *)
(***************************************************************************)
DocA == "file:///w/src/lib.rs"
DocB == "file:///w/src/main.rs"
Documents == {DocA, DocB}

BaseDiagnostic ==
  [range |-> Range(Position(9, 0), Position(9, 4)),
   severity |-> "ERROR",
   source |-> PKG_NAME,
   message |-> "bad code",
   data |-> None]

\* the base diagnostic and the ones that differ from it in one field
SomeDiagnostics ==
  {BaseDiagnostic,
   [BaseDiagnostic EXCEPT !.data = Some([corrections |-> <<"fix">>])],
   [BaseDiagnostic EXCEPT !.range = Range(Position(9, 0), Position(10, 4))],
   [BaseDiagnostic EXCEPT !.severity = "WARNING"],
   [BaseDiagnostic EXCEPT !.message = "bad code\nhere"]}

InitDedup ==
  /\ overflow_checks = FALSE
  /\ ParserIdle
  /\ uri \in Documents
  /\ diagnostics = <<>>
  /\ DedupIdle
  /\ ReaderIdle
  /\ ServiceIdle
  /\ CargoIdle

AddsLeft == Len(bacon_added) + Len(cargo_added) < MaxAdds

\* Bacon's reader hands a parsed (path, diagnostic) to the Deduplicator
BaconAdd(path, diagnostic) ==
  /\ AddsLeft
  /\ diagnostics' = deduplicate_diagnostics(path, uri, diagnostic, diagnostics)
  /\ bacon_added' = Append(bacon_added, [path |-> path, diagnostic |-> diagnostic])
  /\ UNCHANGED <<cargo_vars, service_vars, overflow_checks, parser_vars, uri,
                 cargo_diagnostics, cargo_added, env_vars, reader_vars>>

\* Cargo's reader hands a span's (url, diagnostic) to the Deduplicator
CargoAdd(url, diagnostic) ==
  /\ AddsLeft
  /\ cargo_diagnostics' = maybe_add_diagnostic(url, diagnostic, cargo_diagnostics)
  /\ cargo_added' = Append(cargo_added, [path |-> url, diagnostic |-> diagnostic])
  /\ UNCHANGED <<cargo_vars, service_vars, overflow_checks, parser_vars, uri, diagnostics,
                 bacon_added, env_vars, reader_vars>>

NextDedup ==
  \/ \E path \in Documents, d \in SomeDiagnostics : BaconAdd(path, d)
  \/ \E url \in Documents, d \in SomeDiagnostics : CargoAdd(url, d)

SpecDedup == InitDedup /\ [][NextDedup]_vars

(***************************************************************************)
(* The snapshot harness: BaconLs::diagnostics called with or without a     *)
(* document, the records it parses handed to its Add one by one.           *)
(***************************************************************************)
InitSnapshot ==
  /\ overflow_checks = FALSE
  /\ ParserIdle
  /\ uri \in {None} \cup {Some(doc) : doc \in Documents}
  /\ diagnostics = <<>>
  /\ DedupIdle
  /\ ReaderIdle
  /\ ServiceIdle
  /\ CargoIdle

\* the snapshot's reader hands a parsed (path, diagnostic) to the Add
BaconLsAdd(path, diagnostic) ==
  /\ AddsLeft
  /\ diagnostics' = BaconLs_deduplicate_diagnostics(path, uri, diagnostic, diagnostics)
  /\ bacon_added' = Append(bacon_added, [path |-> path, diagnostic |-> diagnostic])
  /\ UNCHANGED <<cargo_vars, service_vars, overflow_checks, parser_vars, uri,
                 cargo_diagnostics, cargo_added, env_vars, reader_vars>>

NextSnapshot == \E path \in Documents, d \in SomeDiagnostics : BaconLsAdd(path, d)

SpecSnapshot == InitSnapshot /\ [][NextSnapshot]_vars

(***************************************************************************)
(* The reader harness: one read pass of Bacon::diagnostics over export     *)
(* files the exporter wrote, one step per line.                            *)
(***************************************************************************)
RootDir == "/w"
SubDir == "/w/sub"
RootFile == "/w/.bacon-locations"
SubFile == "/w/sub/.bacon-locations"

\* records as the exporter writes them (writeln!), some over several lines
RecBad == "error|:|/w/src/lib.rs|:|10|:|10|:|1|:|5|:|bad code|:|none|:|none"
RecBadFix == "error|:|/w/src/lib.rs|:|10|:|10|:|1|:|5|:|bad code|:|none|:|fix"
RecRelative == "warning|:|src/lib.rs|:|2|:|2|:|1|:|5|:|unused|:|none|:|none"
RecRendered ==
  "warning|:|/w/src/lib.rs|:|8|:|8|:|1|:|2|:|w|:|warning: w\n --> src/lib.rs:8:1\n  |\n8 | w|:|none"
\* like ERROR_LINE of the tests: a line of the message starts with `error`
RecAborting ==
  "error|:|/w/src/lib.rs|:|7|:|7|:|9|:|20|:|cannot find value\n    |\n\nerror: could not compile|:|none|:|none"
RecOther == "note|:|/w/src/main.rs|:|1|:|1|:|1|:|2|:|other|:|none|:|none"
\* the second line of the rendered text is indented, starts with `note` after
\* the indentation and ends in a space
RecIndented ==
  "warning|:|/w/src/lib.rs|:|3|:|3|:|1|:|2|:|unused|:|unused\n  note: by default|:|none "
RecZero == "error|:|/w/src/lib.rs|:|0|:|1|:|1|:|1|:|zero|:|none|:|none"
Garbage == "warning:/file:1:1"

RecordPool ==
  {RecBad, RecBadFix, RecRelative, RecRendered, RecAborting, RecOther, RecIndented,
   RecZero, Garbage}

RecordSeqs(n) == UNION {[1..k -> RecordPool] : k \in 0..n}

\* the text of a file: every record followed by a newline
RECURSIVE file_text(_)
file_text(records) ==
  IF Len(records) = 0 THEN "" ELSE records[1] \o "\n" \o file_text(Tail(records))

\* the second export file: unreadable, empty, one record, or two records the
\* second of which cannot be read; `intact` counts the records in front of
\* the line whose read fails, all of them when no read fails
SubFileChoices ==
  {[readable |-> FALSE, records |-> <<RecBad>>, intact |-> 1],
   [readable |-> TRUE, records |-> <<>>, intact |-> 0],
   [readable |-> TRUE, records |-> <<RecBad>>, intact |-> 1],
   [readable |-> TRUE, records |-> <<RecRelative>>, intact |-> 1],
   [readable |-> TRUE, records |-> <<RecRendered, RecBad>>, intact |-> 1]}

\* what next_line yields in place of a line it cannot read
IoError == "\nio::Error"

\* the lines next_line yields for a file, up to the first failing read
lines_of(file) ==
  text_lines(file_text(SubSeq(file.records, 1, file.intact)))
    \o (IF file.intact < Len(file.records) THEN <<IoError>> ELSE <<>>)

\* the orders in which fs::read_dir may yield a set of files
Orders(set) ==
  {order \in [1..Cardinality(set) -> set] :
     \A i, j \in 1..Cardinality(set) : i # j => order[i] # order[j]}

InitRead ==
  /\ ParserIdle
  /\ DedupIdle
  /\ ServiceIdle
  /\ CargoIdle
  /\ uri = DocA
  /\ diagnostics = <<>>
  /\ workspace_folders \in {<<RootDir>>, <<RootDir, SubDir>>}
  \* a git root above the only folder RootDir would be RootDir itself
  /\ git_root \in IF Len(workspace_folders) = 1 THEN {None} ELSE {None, Some(RootDir)}
  /\ \E first \in RecordSeqs(MaxRecords), second \in SubFileChoices :
       files = [path \in {RootFile, SubFile} |->
                  IF path = RootFile
                  THEN [readable |-> TRUE, records |-> first, intact |-> Len(first)]
                  ELSE second]
  \* the build profile shows only where a position is 0
  /\ overflow_checks \in
       IF \E k \in 1..Len(files[RootFile].records) : files[RootFile].records[k] = RecZero
       THEN BOOLEAN ELSE {FALSE}
  /\ rpc = "folder" /\ folder_i = 1 /\ folder_path = "" /\ bacon_locations = <<>>
  /\ file_i = 0 /\ lines = <<>> /\ buffer = ""

ReadUnchanged == UNCHANGED <<cargo_vars, service_vars, overflow_checks, parser_vars,
                             dedup_vars, uri, env_vars>>

\* `for folder in workspace_folders.iter()`: the folder's base path and its
\* export files
EnterFolder ==
  /\ rpc = "folder"
  /\ folder_i <= Len(workspace_folders)
  /\ folder_path' = effective_folder_path(workspace_folders[folder_i], git_root)
  /\ bacon_locations' \in
       Orders(find_bacon_locations(folder_path', LOCATIONS_FILE, DOMAIN files))
  /\ file_i' = 1
  /\ rpc' = "file"
  /\ UNCHANGED <<diagnostics, folder_i, lines, buffer>>
  /\ ReadUnchanged

\* the last folder is done: the pass returns `diagnostics`
FinishPass ==
  /\ rpc = "folder"
  /\ folder_i > Len(workspace_folders)
  /\ rpc' = "done"
  /\ UNCHANGED <<diagnostics, folder_i, folder_path, bacon_locations, file_i, lines,
                 buffer>>
  /\ ReadUnchanged

\* File::open succeeds
OpenFile ==
  /\ rpc = "file"
  /\ file_i <= Len(bacon_locations)
  /\ files[bacon_locations[file_i]].readable
  /\ lines' = lines_of(files[bacon_locations[file_i]])
  /\ buffer' = ""
  /\ rpc' = "line"
  /\ UNCHANGED <<diagnostics, folder_i, folder_path, bacon_locations, file_i>>
  /\ ReadUnchanged

\* File::open fails and the pass gives up: what is read so far is returned
OpenFileFailsAbortsPass ==
  /\ rpc = "file"
  /\ file_i <= Len(bacon_locations)
  /\ ~ files[bacon_locations[file_i]].readable
  /\ rpc' = "done"
  /\ UNCHANGED <<diagnostics, file_i, folder_i, folder_path, bacon_locations, lines,
                 buffer>>
  /\ ReadUnchanged

\* File::open fails: the file is logged and skipped
OpenFileFails ==
  /\ rpc = "file"
  /\ file_i <= Len(bacon_locations)
  /\ ~ files[bacon_locations[file_i]].readable
  /\ file_i' = file_i + 1
  /\ UNCHANGED <<diagnostics, rpc, folder_i, folder_path, bacon_locations, lines, buffer>>
  /\ ReadUnchanged

\* the files of the folder are done
LeaveFolder ==
  /\ rpc = "file"
  /\ file_i > Len(bacon_locations)
  /\ folder_i' = folder_i + 1
  /\ rpc' = "folder"
  /\ UNCHANGED <<diagnostics, folder_path, bacon_locations, file_i, lines, buffer>>
  /\ ReadUnchanged

\* next_line fails: the error is logged and the loop ends as at the end of
\* the file
ReadLineFails ==
  /\ rpc = "line"
  /\ lines # <<>>
  /\ Head(lines) = IoError
  /\ lines' = <<>>
  /\ UNCHANGED <<diagnostics, rpc, folder_i, folder_path, bacon_locations, file_i, buffer>>
  /\ ReadUnchanged

\* one turn of the `while let Some(line)` loop
ReadLine ==
  /\ rpc = "line"
  /\ lines # <<>>
  /\ Head(lines) # IoError
  /\ \E step \in {read_line(Head(lines), buffer, folder_path, uri, diagnostics,
                            overflow_checks)} :
       /\ buffer' = step.buffer
       /\ diagnostics' = step.flushed.diagnostics
       /\ rpc' = IF step.flushed.panicked THEN "panicked" ELSE "line"
  /\ lines' = Tail(lines)
  /\ UNCHANGED <<folder_i, folder_path, bacon_locations, file_i>>
  /\ ReadUnchanged

\* the loop ends: the remaining buffer is flushed
EndOfFile ==
  /\ rpc = "line"
  /\ lines = <<>>
  /\ \E step \in {end_of_file(buffer, folder_path, uri, diagnostics, overflow_checks)} :
       /\ diagnostics' = step.diagnostics
       /\ rpc' = IF step.panicked THEN "panicked" ELSE "file"
  /\ file_i' = file_i + 1
  /\ UNCHANGED <<folder_i, folder_path, bacon_locations, lines, buffer>>
  /\ ReadUnchanged

NextRead ==
  \/ EnterFolder
  \/ FinishPass
  \/ OpenFile
  \/ OpenFileFails
  \/ LeaveFolder
  \/ ReadLine
  \/ ReadLineFails
  \/ EndOfFile

SpecRead == InitRead /\ [][NextRead]_vars

(***************************************************************************)
(* The pass harness: a second read pass of Bacon::diagnostics, as the      *)
(* steady loop starts one for every trigger, over the export files as they *)
(* were or with a record removed.                                          *)
(***************************************************************************)
\* the files with record k of the first export file removed
without_record(k) ==
  [files EXCEPT ![RootFile] =
     [readable |-> TRUE,
      records |-> SubSeq(files[RootFile].records, 1, k - 1)
                    \o SubSeq(files[RootFile].records, k + 1, Len(files[RootFile].records)),
      intact |-> Len(files[RootFile].records) - 1]]

\* what the export files may hold when the next pass reads them: what they
\* held, or that without one record of the first file
Rewrites == {files} \cup {without_record(k) : k \in 1..Len(files[RootFile].records)}

\* one workspace folder, whose directory listing is that of both files
InitPasses == InitRead /\ workspace_folders = <<RootDir>>

\* the next pass written with a list that outlives the call
PassAgainKeepingDiagnostics(rewritten) ==
  /\ rpc = "done"
  /\ earlier = None
  /\ earlier' = Some([files |-> files, bacon_locations |-> bacon_locations,
                      diagnostics |-> diagnostics])
  /\ files' = rewritten
  /\ diagnostics' = diagnostics
  /\ rpc' = "folder" /\ folder_i' = 1 /\ folder_path' = "" /\ bacon_locations' = <<>>
  /\ file_i' = 0 /\ lines' = <<>> /\ buffer' = ""
  /\ UNCHANGED <<cargo_vars, initialize_vars, session_vars, initialized_vars,
                 supervisor_vars, shutdown_pc, sync_vars, last_publish, export,
                 documents_vars, overflow_checks, parser_vars, dedup_vars, uri,
                 workspace_folders, git_root>>

\* the next call of Bacon::diagnostics for the document: `let mut
\* diagnostics = vec![]`, and the loop over the workspace folders starts
PassAgain(rewritten) ==
  /\ rpc = "done"
  /\ earlier = None
  /\ earlier' = Some([files |-> files, bacon_locations |-> bacon_locations,
                      diagnostics |-> diagnostics])
  /\ files' = rewritten
  /\ diagnostics' = <<>>
  /\ rpc' = "folder" /\ folder_i' = 1 /\ folder_path' = "" /\ bacon_locations' = <<>>
  /\ file_i' = 0 /\ lines' = <<>> /\ buffer' = ""
  /\ UNCHANGED <<cargo_vars, initialize_vars, session_vars, initialized_vars,
                 supervisor_vars, shutdown_pc, sync_vars, last_publish, export,
                 documents_vars, overflow_checks, parser_vars, dedup_vars, uri,
                 workspace_folders, git_root>>

NextPasses ==
  \/ EnterFolder
  \/ FinishPass
  \/ OpenFile
  \/ OpenFileFails
  \/ LeaveFolder
  \/ ReadLine
  \/ ReadLineFails
  \/ EndOfFile
  \/ \E rewritten \in Rewrites : PassAgain(rewritten)

SpecPasses == InitPasses /\ [][NextPasses]_vars

(***************************************************************************)
(* The Cargo backend: Cargo::cargo_diagnostics decodes the standard output *)
(* of a cargo run line by line and adds a diagnostic for every span.       *)
(***************************************************************************)
\* how many lines the standard output of a cargo run holds
MaxLines == 3

\* Cargo::parse_severity
Cargo_parse_severity(severity_str) ==
  CASE severity_str \in {"warning", "failure-note"} -> "WARNING"
    [] severity_str \in {"info", "information", "note"} -> "INFORMATION"
    [] severity_str \in {"hint", "help"} -> "HINT"
    [] OTHER -> "ERROR"

\* env::current_dir() of the server
CurrentDir == "/w"

\* the file system: the paths that resolve, each with its canonical form;
\* /w/lnk.rs is a symbolic link to /w/src/lib.rs
Canonical ==
  [path \in {"/w/src/lib.rs", "/w/src/main.rs", "/w/lnk.rs"} |->
     IF path = "/w/lnk.rs" THEN "/w/src/lib.rs" ELSE path]

\* Path::canonicalize: Ok(canonical path) of a path that resolves, else Err
canonicalize(path) ==
  IF path \in DOMAIN Canonical THEN Some(Canonical[path]) ELSE None

\* deserialize_url: the file name of a span is parsed as `file://{file_name}`
deserialize_url(url_str) == "file://" \o url_str

\* Uri::authority().host() of such a Uri: the text up to the first slash
authority_host(span_uri) ==
  \* the index of the first slash after `file://`, 0 when there is none
  IF find(url_path(span_uri), "/", 1) = 0 THEN url_path(span_uri)
  ELSE SubSeq(url_path(span_uri), 1, find(url_path(span_uri), "/", 1) - 1)

\* Uri::path() of such a Uri: the text from the first slash on
authority_path(span_uri) ==
  IF find(url_path(span_uri), "/", 1) = 0 THEN ""
  ELSE SubSeq(url_path(span_uri), find(url_path(span_uri), "/", 1),
              Len(url_path(span_uri)))

\* str::replacen(from, to, 1): the first occurrence is replaced
replacen(s, from, to) ==
  IF find(s, from, 1) = 0 THEN s
  ELSE SubSeq(s, 1, find(s, from, 1) - 1) \o to
       \o SubSeq(s, find(s, from, 1) + Len(from), Len(s))

\* the path of a span: absolute when the host is empty, otherwise resolved
\* against the current directory
span_path(current_dir, span_uri) ==
  IF authority_host(span_uri) = "" THEN authority_path(span_uri)
  ELSE path_join(path_join(current_dir, authority_host(span_uri)),
                 replacen(authority_path(span_uri), "/", ""))

\* the Diagnostic built for a span; the positions of rustc are 1-based
span_diagnostic(severity, message, span) ==
  [range |-> Range(Position(span.line_start - 1, span.column_start - 1),
                   Position(span.line_end - 1, span.column_end - 1)),
   severity |-> Cargo_parse_severity(severity),
   source |-> PKG_NAME,
   message |-> message,
   data |-> IF span.suggested_replacement = None THEN None
            ELSE Some([corrections |-> <<span.suggested_replacement[1]>>])]

\* Cargo::maybe_add_diagnostic: Err when the path of the span cannot be
\* canonicalized, else the diagnostic goes through the deduplication
\* `into` is the map and the history of what was given to the deduplication
Cargo_maybe_add_diagnostic(current_dir, severity, message, span, into) ==
  IF canonicalize(span_path(current_dir, span.file_name)) = None
  THEN [into EXCEPT !.ok = FALSE]
  ELSE [ok |-> TRUE,
        diagnostics |->
          maybe_add_diagnostic(
            file_url(canonicalize(span_path(current_dir, span.file_name))[1]),
            span_diagnostic(severity, message, span), into.diagnostics),
        added |->
          Append(into.added,
                 [path |-> file_url(canonicalize(span_path(current_dir,
                                                           span.file_name))[1]),
                  diagnostic |-> span_diagnostic(severity, message, span)])]

\* `for span in spans { maybe_add_diagnostic(..)? }`: the first Err ends it
RECURSIVE add_spans(_, _, _, _)
add_spans(severity, message, spans, result) ==
  IF ~ result.ok \/ spans = <<>> THEN result
  ELSE add_spans(severity, message, Tail(spans),
                 Cargo_maybe_add_diagnostic(CurrentDir, severity, message, Head(spans),
                                            result))

\* `for children in message.children { for span in children.spans { .. }}`
RECURSIVE add_children(_, _)
add_children(children, result) ==
  IF ~ result.ok \/ children = <<>> THEN result
  ELSE add_children(Tail(children),
                    add_spans(Head(children).level, Head(children).message,
                              Head(children).spans, result))

\* the rendered text kept with its escape sequences
rendered_message_with_ansi(rendered) == trim_end_matches(rendered, "\n")

\* ansi_regex().replace_all(&message.rendered, "").trim_end_matches('\n')
rendered_message(rendered) == trim_end_matches(strip_ansi(rendered), "\n")

\* the fields a CargoMessage cannot be decoded without; `$message_type` is
\* written message_type
CargoMessageFields == {"message_type", "rendered", "level", "spans", "children"}

\* a CargoSpan: file_name goes through deserialize_url
decode_span(span) == [span EXCEPT !.file_name = deserialize_url(@)]
decode_spans(spans) == [k \in 1..Len(spans) |-> decode_span(spans[k])]

\* serde_json::from_str::<CargoLine>: Err for a line that is not a JSON
\* document (given by its text) and for a message without a required field;
\* a JSON object without `message` decodes to a CargoLine without message
decode(json_line) ==
  IF "text" \in DOMAIN json_line
  THEN [ok |-> FALSE, message |-> None]
  ELSE IF "message" \notin DOMAIN json_line
  THEN [ok |-> TRUE, message |-> None]
  ELSE IF ~ (CargoMessageFields \subseteq DOMAIN json_line.message)
  THEN [ok |-> FALSE, message |-> None]
  ELSE [ok |-> TRUE,
        message |->
          Some([json_line.message EXCEPT
                  !.spans = decode_spans(@),
                  !.children =
                    [k \in 1..Len(@) |-> [@[k] EXCEPT !.spans = decode_spans(@)]]])]

\* the spans of a diagnostic message and of its children are added
add_message(message, into) ==
  add_children(message.children,
               add_spans(message.level, rendered_message(message.rendered),
                         message.spans, into))

\* one turn of `for line in stdout.lines()`, from the map and the history
\* `into`: the Err arm logs, the Ok arm looks for a diagnostic message
process_line(json_line, into) ==
  IF ~ decode(json_line).ok THEN into
  ELSE IF decode(json_line).message = None THEN into
  ELSE IF decode(json_line).message[1].message_type # "diagnostic" THEN into
  ELSE add_message(decode(json_line).message[1], into)

\* the map and the history a turn of the loop starts from
cargo_so_far == [ok |-> TRUE, diagnostics |-> cargo_diagnostics, added |-> cargo_added]

\* the spans of the runs
Span(of_file, at_line, replacement) ==
  [file_name |-> of_file, line_start |-> at_line, line_end |-> at_line,
   column_start |-> 1, column_end |-> 2, suggested_replacement |-> replacement]
SpanLib == Span("src/lib.rs", 5, Some("fix"))
SpanLink == Span("/w/lnk.rs", 7, None)
SpanMain == Span("/w/src/main.rs", 3, None)
SpanGone == Span("src/gone.rs", 1, None)

\* the lines of the runs: a line that is not JSON, an envelope without
\* message, a message that is not a diagnostic, a message without its
\* rendered text, a warning with a child, an error whose first span is in a
\* file that is gone, a note
NotJsonLine == [text |-> "    Checking demo v0.1.0 (/w)"]
ArtifactLine == [reason |-> "compiler-artifact"]
NotDiagnosticLine ==
  [reason |-> "compiler-message",
   message |-> [message_type |-> "future_incompat", rendered |-> "later", level |-> "note",
                spans |-> <<SpanMain>>, children |-> <<>>]]
UndecodableLine ==
  [reason |-> "compiler-message",
   message |-> [message_type |-> "diagnostic", level |-> "warning",
                spans |-> <<SpanMain>>, children |-> <<>>]]
WarningLine ==
  [reason |-> "compiler-message",
   message |-> [message_type |-> "diagnostic",
                rendered |-> "\f[33mwarning\f[0m: unused\n", level |-> "warning",
                spans |-> <<SpanLib, SpanLink>>,
                children |-> <<[message |-> "remove it", level |-> "help",
                                spans |-> <<SpanLib>>]>>]]
ErrorLine ==
  [reason |-> "compiler-message",
   message |-> [message_type |-> "diagnostic", rendered |-> "error: bad\n",
                level |-> "error", spans |-> <<SpanGone, SpanMain>>, children |-> <<>>]]
NoteLine ==
  [reason |-> "compiler-message",
   message |-> [message_type |-> "diagnostic", rendered |-> "note: see", level |-> "note",
                spans |-> <<SpanMain>>, children |-> <<>>]]
StdoutLines ==
  {NotJsonLine, ArtifactLine, NotDiagnosticLine, UndecodableLine, WarningLine, ErrorLine,
   NoteLine}

\* the index of the first whitespace of s at or after i, Len(s) + 1 when
\* there is none
RECURSIVE word_end(_, _)
word_end(s, i) ==
  IF i > Len(s) \/ SubSeq(s, i, i) \in WhiteSpace THEN i ELSE word_end(s, i + 1)

\* str::split_whitespace: the words between runs of whitespace
RECURSIVE split_whitespace(_)
split_whitespace(s) ==
  IF s = "" THEN <<>>
  ELSE IF SubSeq(s, 1, 1) \in WhiteSpace THEN split_whitespace(SubSeq(s, 2, Len(s)))
  ELSE <<SubSeq(s, 1, word_end(s, 1) - 1)>>
         \o split_whitespace(SubSeq(s, word_end(s, 1), Len(s)))

\* the configured command arguments and the build directories of the runs
CommandArguments ==
  {"check --message-format=json", "clippy  --workspace --message-format=json "}
DestinationFolders == {"/w", "/tmp/build"}

\* `args`: the words of command_args, then --manifest-path and the Cargo.toml
\* of the destination folder; the vector is logged
args(command_args, destination_folder) ==
  split_whitespace(command_args)
    \o <<"--manifest-path", path_join(destination_folder, "Cargo.toml")>>

\* the Command that is run: `Command::new("cargo")` with
\* `.args(command_args.split_whitespace())` and
\* `.current_dir(destination_folder)`
cmd(command_args, destination_folder) ==
  [program |-> "cargo", args |-> split_whitespace(command_args),
   current_dir |-> destination_folder]

InitCargo ==
  /\ overflow_checks = FALSE
  /\ ParserIdle
  /\ uri = DocA
  /\ diagnostics = <<>>
  /\ DedupIdle
  /\ ReaderIdle
  /\ ServiceIdle
  /\ stdout = <<>>
  /\ stdout_i = 0
  /\ cargo_result = "start"
  /\ child_command = None

CargoUnchanged ==
  UNCHANGED <<service_vars, overflow_checks, parser_vars, uri, diagnostics, bacon_added,
              env_vars, reader_vars, stdout, child_command>>

\* `cmd.args(..).output().await` returns the output of the child: the loop
\* over the lines of its standard output starts from an empty map
CargoOutput(command_args, destination_folder, output) ==
  /\ cargo_result = "start"
  /\ child_command' = Some(cmd(command_args, destination_folder))
  /\ stdout' = output
  /\ stdout_i' = 1
  /\ cargo_result' = "running"
  /\ UNCHANGED <<service_vars, overflow_checks, parser_vars, uri, diagnostics, dedup_vars,
                 env_vars, reader_vars>>

\* `.output().await?` is Err, cargo cannot be run: the error is returned
CargoOutputFails(command_args, destination_folder) ==
  /\ cargo_result = "start"
  /\ child_command' = Some(cmd(command_args, destination_folder))
  /\ cargo_result' = "Err(io)"
  /\ UNCHANGED <<service_vars, overflow_checks, parser_vars, uri, diagnostics, dedup_vars,
                 env_vars, reader_vars, stdout, stdout_i>>

\* the loop written with a break: a line that cannot be decoded ends it
CargoLineEndsAtUndecodable ==
  /\ cargo_result = "running"
  /\ stdout_i <= Len(stdout)
  /\ \E step \in {process_line(stdout[stdout_i], cargo_so_far)} :
       /\ step.ok
       /\ cargo_diagnostics' = step.diagnostics
       /\ cargo_added' = step.added
  /\ stdout_i' = IF decode(stdout[stdout_i]).ok THEN stdout_i + 1 ELSE Len(stdout) + 1
  /\ UNCHANGED cargo_result
  /\ CargoUnchanged

\* one turn of the loop over the lines of stdout that ends without an error
CargoLine ==
  /\ cargo_result = "running"
  /\ stdout_i <= Len(stdout)
  /\ \E step \in {process_line(stdout[stdout_i], cargo_so_far)} :
       /\ step.ok
       /\ cargo_diagnostics' = step.diagnostics
       /\ cargo_added' = step.added
  /\ stdout_i' = stdout_i + 1
  /\ UNCHANGED cargo_result
  /\ CargoUnchanged

\* one turn of the loop in which maybe_add_diagnostic is Err: `?` returns
\* the error from cargo_diagnostics, and the map is dropped
CargoLineFails ==
  /\ cargo_result = "running"
  /\ stdout_i <= Len(stdout)
  /\ ~ process_line(stdout[stdout_i], cargo_so_far).ok
  /\ cargo_result' = "Err"
  /\ cargo_diagnostics' = EmptyMap
  /\ cargo_added' = <<>>
  /\ UNCHANGED stdout_i
  /\ CargoUnchanged

\* the loop is over: Ok(diagnostics)
CargoReturns ==
  /\ cargo_result = "running"
  /\ stdout_i > Len(stdout)
  /\ cargo_result' = "Ok"
  /\ UNCHANGED <<cargo_diagnostics, cargo_added, stdout_i>>
  /\ CargoUnchanged

NextCargo ==
  \/ \E command_args \in CommandArguments, destination_folder \in DestinationFolders,
        output \in UNION {[1..n -> StdoutLines] : n \in 0..MaxLines} :
       CargoOutput(command_args, destination_folder, output)
  \/ \E command_args \in CommandArguments, destination_folder \in DestinationFolders :
       CargoOutputFails(command_args, destination_folder)
  \/ CargoLine
  \/ CargoLineFails
  \/ CargoReturns

SpecCargo == InitCargo /\ [][NextCargo]_vars

(***************************************************************************)
(* The service: the `initialized` and `shutdown` handlers, the bacon       *)
(* process and its supervisor task, the synchronization task with its      *)
(* watcher, and the document notifications, interleaved at their awaits.   *)
(***************************************************************************)
\* how many batches the debouncer delivers in a run
MaxBatches == 1
\* how many documents the editor opens, by did_open or as the new name of a
\* rename, in a run
MaxOpens == 2

\* the two synchronization functions of the sources
Bacon_syncronize_diagnostics == "Bacon::syncronize_diagnostics"
BaconLs_syncronize_diagnostics_for_all_open_files ==
  "BaconLs::syncronize_diagnostics_for_all_open_files"

\* the message `initialized` shows with MessageType::ERROR when the spawn
\* fails: `failed to start bacon: {e}`
StartError == "failed to start bacon: No such file or directory"

\* the kinds of notify events; EventKind::is_modify is `matches!(self, Modify(_))`
EventKinds == {"Create(File)", "Modify(Data)", "Modify(Metadata)", "Remove(File)"}
is_modify(kind) == starts_with(kind, "Modify(")

\* a DebounceEventResult: Ok(events) or Err(errors)
OkBatch(events) == [ok |-> TRUE, events |-> events]
ErrBatch == [ok |-> FALSE, events |-> <<>>]
Batches ==
  {ErrBatch,
   OkBatch(<<"Create(File)">>),
   OkBatch(<<"Modify(Metadata)">>),
   OkBatch(<<"Create(File)", "Modify(Data)", "Modify(Data)", "Modify(Data)">>)}

\* `match res { Err => continue }` and `if !events.iter().any(is_modify) { continue }`:
\* TRUE when the batch starts a pass
starts_pass(batch) ==
  /\ batch.ok
  /\ \E k \in 1..Len(batch.events) : is_modify(batch.events[k])

\* Drop of the Child without kill_on_drop: the process is left as it is
kill_on_drop_not_set(process) == process

\* Drop of the Child of a Command built with kill_on_drop(true)
kill_on_drop(process) == IF process = "running" THEN "killed" ELSE process

\* what is read while bacon has not written its export file: nothing
NotExported == [document \in Documents |-> <<>>]

\* what is read from the export file bacon writes: one record, located in DocA
Exported == [document \in Documents |-> IF document = DocA THEN <<BaseDiagnostic>> ELSE <<>>]

\* Bacon::diagnostics_vec: the diagnostics read from the export files for
\* the document, without their urls
diagnostics_vec(for_uri) == export[for_uri]

\* the PublishDiagnosticsParams of `client.publish_diagnostics(uri.clone(),
\* diagnostics_vec, None)`, with who sent them, whether the token was
\* cancelled by then and, for the steady loop, the batch that started the pass
published_params(by, document) ==
  [uri |-> document, diagnostics |-> diagnostics_vec(document), version |-> None,
   by |-> by, cancelled |-> cancel_token,
   trigger |-> IF by = "steady loop" THEN trigger ELSE None]

\* client.publish_diagnostics, when a client is connected
publish(by, document) ==
  IF client THEN Some(published_params(by, document)) ELSE last_publish

\* enum Backend
Backends == {"Bacon", "Cargo"}

\* the values an option of initializationOptions is sent with
OptionValues == {"absent", "true", "false", "invalid"}
InitializationOptions ==
  [useCargoBackend : OptionValues, runBaconInBackground : OptionValues]

InitService ==
  /\ ParserIdle
  /\ DedupIdle
  /\ ReaderIdle
  /\ CargoIdle
  /\ overflow_checks = FALSE /\ uri = DocA /\ diagnostics = <<>>
  /\ client \in BOOLEAN
  /\ initialize_pc = "none"
  /\ backend \in Backends
  /\ run_bacon_in_background = TRUE
  /\ sync_fn \in {Bacon_syncronize_diagnostics,
                  BaconLs_syncronize_diagnostics_for_all_open_files}
  /\ cancel_token = FALSE /\ state_writer = "none"
  /\ bacon_command_handle = None /\ sync_files_handle = None /\ open_files = {}
  /\ opens = 0
  /\ initialized_pc = "start" /\ run_result = "none" /\ shown = <<>> /\ spawns = 0
  /\ child = "none" /\ supervisor = "none" /\ shutdown_pc = "none"
  /\ sync_pc = "none" /\ path_exists \in BOOLEAN /\ rx = <<>> /\ batches = 0
  /\ trigger = None /\ pass_files = <<>> /\ last_publish = None
  /\ pass_open = {} /\ pass_published = <<>>
  /\ export = IF path_exists THEN Exported ELSE NotExported
  /\ notified = 0 /\ last_notification = None /\ pending = None
  /\ earlier = None

\* what no handler and no task of the service changes
ServiceConstant ==
  UNCHANGED <<overflow_checks, parser_vars, dedup_vars, uri, diagnostics, env_vars,
              reader_vars, cargo_vars, client, sync_fn, documents_vars, earlier>>

ServiceUnchanged == ServiceConstant /\ UNCHANGED run_bacon_in_background

\* the options of `initialize` that are read from initializationOptions in
\* the order of the handler, for the two the session depends on: the backend
\* and the start of bacon. A value that is not a boolean ends the handler
\* with InvalidParams at that option, after the options before it were stored
initialization_options(ops, old_backend, old_run_bacon) ==
  IF ops.useCargoBackend = "invalid"
  THEN [ok |-> FALSE, backend |-> old_backend, run_bacon_in_background |-> old_run_bacon]
  ELSE [ok |-> ops.runBaconInBackground # "invalid",
        backend |-> IF ops.useCargoBackend = "absent" THEN old_backend
                    ELSE IF ops.useCargoBackend = "true" THEN "Cargo" ELSE "Bacon",
        run_bacon_in_background |->
          IF ops.runBaconInBackground \in {"absent", "invalid"} THEN old_run_bacon
          ELSE ops.runBaconInBackground = "true"]

\* `if let Backend::Cargo = state.backend`: the Cargo backend never starts bacon
cargo_overrides(loaded) ==
  IF loaded.ok /\ loaded.backend = "Cargo"
  THEN [loaded EXCEPT !.run_bacon_in_background = FALSE]
  ELSE loaded

\* `initialize`: a client without diagnostics support is refused before the
\* State is touched; otherwise the options are loaded under the write lock,
\* which is still held while the Cargo backend looks for the git root
Initialize(supports_diagnostics, ops, update_on_change) ==
  /\ initialize_pc = "none"
  /\ state_writer = "none"
  /\ \E loaded \in {cargo_overrides(initialization_options(ops, backend,
                                                            run_bacon_in_background))} :
       IF ~ supports_diagnostics
       THEN /\ initialize_pc' = "InvalidRequest"
            /\ UNCHANGED <<backend, run_bacon_in_background, state_writer>>
       ELSE /\ backend' = loaded.backend
            /\ run_bacon_in_background' = loaded.run_bacon_in_background
            /\ \E searches \in {loaded.ok /\ loaded.backend = "Cargo" /\ ~ update_on_change} :
                 /\ initialize_pc' = IF ~ loaded.ok THEN "InvalidParams"
                                     ELSE IF searches THEN "git_root" ELSE "returned"
                 /\ state_writer' = IF searches THEN "initialize" ELSE "none"
  /\ UNCHANGED <<export, cancel_token, bacon_command_handle, sync_files_handle, open_files,
                 opens, initialized_vars, supervisor_vars, shutdown_pc, sync_vars,
                 last_publish>>
  /\ ServiceConstant

\* Cargo::find_git_root_directory().await returns: the State is logged, the
\* write lock dropped and the InitializeResult returned
InitializeFoundGitRoot ==
  /\ initialize_pc = "git_root"
  /\ initialize_pc' = "returned"
  /\ state_writer' = "none"
  /\ UNCHANGED <<export, backend, cancel_token, bacon_command_handle, sync_files_handle,
                 open_files, opens, initialized_vars, supervisor_vars, shutdown_pc,
                 sync_vars, last_publish>>
  /\ ServiceUnchanged

\* `initialized` with a client: the start is logged to the client and the
\* preferences of bacon, which are valid, are validated
InitializedValidate ==
  /\ initialize_pc = "returned"
  /\ initialized_pc = "start"
  /\ state_writer = "none"
  /\ client
  /\ initialized_pc' = "run_bacon"
  /\ UNCHANGED <<initialize_vars, export, cancel_token, state_writer,
                 bacon_command_handle, sync_files_handle, open_files, opens, run_result,
                 shown, spawns, supervisor_vars, shutdown_pc, sync_vars, last_publish>>
  /\ ServiceUnchanged

\* `initialized` without a client: nothing is validated or started
InitializedNoClient ==
  /\ initialize_pc = "returned"
  /\ initialized_pc = "start"
  /\ state_writer = "none"
  /\ ~ client
  /\ initialized_pc' = "sync"
  /\ UNCHANGED <<initialize_vars, export, cancel_token, state_writer,
                 bacon_command_handle, sync_files_handle, open_files, opens, run_result,
                 shown, spawns, supervisor_vars, shutdown_pc, sync_vars, last_publish>>
  /\ ServiceUnchanged

\* runBaconInBackground is false
InitializedSkipBacon ==
  /\ initialized_pc = "run_bacon"
  /\ ~ run_bacon_in_background
  /\ initialized_pc' = "sync"
  /\ UNCHANGED <<initialize_vars, export, cancel_token, state_writer,
                 bacon_command_handle, sync_files_handle, open_files, opens, run_result,
                 shown, spawns, supervisor_vars, shutdown_pc, sync_vars, last_publish>>
  /\ ServiceUnchanged

\* Bacon::run_in_background: command.spawn() gives a child, and a task that
\* waits for it is spawned, or it fails and the error is returned
RunInBackground ==
  /\ initialized_pc = "run_bacon"
  /\ run_bacon_in_background
  /\ spawns' = spawns + 1
  /\ \E spawned \in BOOLEAN :
       /\ run_result' = IF spawned THEN "Ok" ELSE "Err"
       /\ child' = IF spawned THEN "running" ELSE child
       /\ supervisor' = IF spawned THEN "waiting" ELSE supervisor
  /\ initialized_pc' = "match"
  /\ UNCHANGED <<initialize_vars, export, cancel_token, state_writer,
                 bacon_command_handle, sync_files_handle, open_files, opens, shown,
                 shutdown_pc, sync_vars, last_publish>>
  /\ ServiceUnchanged

\* the Ok arm written without the store: the handle is dropped
InitializedStartedDropsHandle ==
  /\ initialized_pc = "match"
  /\ run_result = "Ok"
  /\ state_writer = "none"
  /\ initialized_pc' = "sync"
  /\ UNCHANGED <<initialize_vars, export, cancel_token, state_writer, bacon_command_handle,
                 sync_files_handle, open_files, opens, run_result, shown, spawns,
                 supervisor_vars, shutdown_pc, sync_vars, last_publish>>
  /\ ServiceUnchanged

\* the Ok arm: the handle is stored under the write lock
InitializedStarted ==
  /\ initialized_pc = "match"
  /\ run_result = "Ok"
  /\ state_writer = "none"
  /\ bacon_command_handle' = Some("supervisor")
  /\ initialized_pc' = "sync"
  /\ UNCHANGED <<initialize_vars, export, cancel_token, state_writer, sync_files_handle,
                 open_files, opens, run_result, shown, spawns, supervisor_vars,
                 shutdown_pc, sync_vars, last_publish>>
  /\ ServiceUnchanged

\* the Err arm written as a retry: the spawn is tried again
InitializedStartFailedRetries ==
  /\ initialized_pc = "match"
  /\ run_result = "Err"
  /\ spawns < 3
  /\ shown' = Append(shown, StartError)
  /\ initialized_pc' = "run_bacon"
  /\ UNCHANGED <<initialize_vars, export, cancel_token, state_writer,
                 bacon_command_handle, sync_files_handle, open_files, opens, run_result,
                 spawns, supervisor_vars, shutdown_pc, sync_vars, last_publish>>
  /\ ServiceUnchanged

\* the Err arm: the error is logged and shown to the user
InitializedStartFailed ==
  /\ initialized_pc = "match"
  /\ run_result = "Err"
  /\ shown' = Append(shown, StartError)
  /\ initialized_pc' = "sync"
  /\ UNCHANGED <<initialize_vars, export, cancel_token, state_writer,
                 bacon_command_handle, sync_files_handle, open_files, opens, run_result,
                 spawns, supervisor_vars, shutdown_pc, sync_vars, last_publish>>
  /\ ServiceUnchanged

\* the synchronization task is spawned and its handle stored under the
\* write lock; `initialized` returns
InitializedSpawnSync ==
  /\ initialized_pc = "sync"
  /\ state_writer = "none"
  /\ sync_files_handle' = Some("sync")
  /\ sync_pc' = "start"
  /\ initialized_pc' = "returned"
  /\ UNCHANGED <<initialize_vars, export, cancel_token, state_writer,
                 bacon_command_handle, open_files, opens, run_result, shown, spawns,
                 supervisor_vars, shutdown_pc, path_exists, rx, batches, trigger,
                 pass_files, pass_open, pass_published, last_publish>>
  /\ ServiceUnchanged

\* the bacon process ends on its own
ChildExits ==
  /\ child = "running"
  /\ child' = "exited"
  /\ UNCHANGED <<initialize_vars, export, session_vars, initialized_vars, supervisor,
                 shutdown_pc, sync_vars, last_publish>>
  /\ ServiceUnchanged

\* the supervisor task, `child.wait()` branch of the select: the task ends
\* and the Child is dropped
SupervisorChildWaited ==
  /\ supervisor = "waiting"
  /\ child = "exited"
  /\ supervisor' = "finished"
  /\ child' = kill_on_drop(child)
  /\ UNCHANGED <<initialize_vars, export, session_vars, initialized_vars, shutdown_pc,
                 sync_vars, last_publish>>
  /\ ServiceUnchanged

\* the supervisor task, `cancel_token.cancelled()` branch of the select: the
\* task ends and the Child is dropped
SupervisorCancelled ==
  /\ supervisor = "waiting"
  /\ cancel_token
  /\ supervisor' = "finished"
  /\ child' = kill_on_drop(child)
  /\ UNCHANGED <<initialize_vars, export, session_vars, initialized_vars, shutdown_pc,
                 sync_vars, last_publish>>
  /\ ServiceUnchanged

\* `shutdown`: the write lock is taken, the token cancelled, and the handle
\* of the supervisor taken out of the State if there is one
ShutdownCancel ==
  /\ initialize_pc = "returned"
  /\ shutdown_pc = "none"
  /\ state_writer = "none"
  /\ state_writer' = "shutdown"
  /\ cancel_token' = TRUE
  /\ bacon_command_handle' = None
  /\ shutdown_pc' = IF bacon_command_handle # None THEN "join_bacon" ELSE "sync_handle"
  /\ UNCHANGED <<initialize_vars, export, sync_files_handle, open_files, opens,
                 initialized_vars, supervisor_vars, sync_vars, last_publish>>
  /\ ServiceUnchanged

\* `handle.await` of the supervisor's handle returns
ShutdownJoinedBacon ==
  /\ shutdown_pc = "join_bacon"
  /\ supervisor = "finished"
  /\ shutdown_pc' = "sync_handle"
  /\ UNCHANGED <<initialize_vars, export, session_vars, initialized_vars,
                 supervisor_vars, sync_vars, last_publish>>
  /\ ServiceUnchanged

\* the handle of the synchronization task is taken out of the State if there
\* is one
ShutdownTakeSync ==
  /\ shutdown_pc = "sync_handle"
  /\ sync_files_handle' = None
  /\ shutdown_pc' = IF sync_files_handle # None THEN "join_sync" ELSE "log"
  /\ UNCHANGED <<initialize_vars, export, cancel_token, state_writer,
                 bacon_command_handle, open_files, opens, initialized_vars,
                 supervisor_vars, sync_vars, last_publish>>
  /\ ServiceUnchanged

\* `handle.await` of the synchronization task's handle returns, with Ok or
\* with the JoinError of a panic
ShutdownJoinedSync ==
  /\ shutdown_pc = "join_sync"
  /\ sync_pc \in {"returned", "panicked"}
  /\ shutdown_pc' = "log"
  /\ UNCHANGED <<initialize_vars, export, session_vars, initialized_vars,
                 supervisor_vars, sync_vars, last_publish>>
  /\ ServiceUnchanged

\* `shutdown` written with a reset of the State to its defaults at its end
ShutdownReturnsAndResets ==
  /\ shutdown_pc = "log"
  /\ shutdown_pc' = "returned"
  /\ state_writer' = "none"
  /\ backend' = "Bacon"
  /\ UNCHANGED <<initialize_pc, export, cancel_token, bacon_command_handle,
                 sync_files_handle, open_files, opens, initialized_vars, supervisor_vars,
                 sync_vars, last_publish>>
  /\ ServiceUnchanged

\* the stop is logged, `shutdown` returns Ok and the write lock is dropped
ShutdownReturns ==
  /\ shutdown_pc = "log"
  /\ shutdown_pc' = "returned"
  /\ state_writer' = "none"
  /\ UNCHANGED <<initialize_vars, export, cancel_token, bacon_command_handle,
                 sync_files_handle, open_files, opens, initialized_vars, supervisor_vars,
                 sync_vars, last_publish>>
  /\ ServiceUnchanged

\* the task starts: the configuration is read under the read lock, and the
\* debouncer is created with a callback that sends into the channel
SyncReadState ==
  /\ sync_pc = "start"
  /\ state_writer = "none"
  /\ sync_pc' = "watch"
  /\ UNCHANGED <<initialize_vars, export, session_vars, initialized_vars, supervisor_vars,
                 shutdown_pc, path_exists, rx, batches, trigger, pass_files, pass_open,
                 pass_published, last_publish>>
  /\ ServiceUnchanged

\* watcher.watch(..) is Ok: the steady loop is entered
SyncWatch ==
  /\ sync_pc = "watch"
  /\ path_exists
  /\ sync_pc' = "select"
  /\ UNCHANGED <<initialize_vars, export, session_vars, initialized_vars, supervisor_vars,
                 shutdown_pc, path_exists, rx, batches, trigger, pass_files, pass_open,
                 pass_published, last_publish>>
  /\ ServiceUnchanged

\* watcher.watch(..) is Err: Bacon::syncronize_diagnostics sleeps a second
\* before it tries again, BaconLs::syncronize_diagnostics_for_all_open_files
\* panics in `expect`
SyncWatchFails ==
  /\ sync_pc = "watch"
  /\ ~ path_exists
  /\ sync_pc' = IF sync_fn = Bacon_syncronize_diagnostics THEN "sleep" ELSE "panicked"
  /\ UNCHANGED <<initialize_vars, export, session_vars, initialized_vars, supervisor_vars,
                 shutdown_pc, path_exists, rx, batches, trigger, pass_files, pass_open,
                 pass_published, last_publish>>
  /\ ServiceUnchanged

\* the sleep of one second is over
SyncRetry ==
  /\ sync_pc = "sleep"
  /\ sync_pc' = "watch"
  /\ UNCHANGED <<initialize_vars, export, session_vars, initialized_vars, supervisor_vars,
                 shutdown_pc, path_exists, rx, batches, trigger, pass_files, pass_open,
                 pass_published, last_publish>>
  /\ ServiceUnchanged

\* bacon writes its export file for the first time
PathCreated ==
  /\ ~ path_exists
  /\ path_exists' = TRUE
  /\ export' = Exported
  /\ UNCHANGED <<initialize_vars, session_vars, initialized_vars, supervisor_vars,
                 shutdown_pc, sync_pc, rx, batches, trigger, pass_files, pass_open,
                 pass_published, last_publish>>
  /\ ServiceUnchanged

\* the debouncer of a registered watcher calls the callback with a batch:
\* `tx.send(ev)`
Debounced(batch) ==
  /\ sync_pc \in {"select", "lock", "publish"}
  /\ batches < MaxBatches
  /\ rx' = Append(rx, batch)
  /\ batches' = batches + 1
  /\ UNCHANGED <<initialize_vars, export, session_vars, initialized_vars, supervisor_vars,
                 shutdown_pc, sync_pc, path_exists, trigger, pass_files, pass_open,
                 pass_published, last_publish>>
  /\ ServiceUnchanged

\* the `rx.recv_async()` branch of the select: an error batch and a batch
\* without a modify event are dropped, any other batch starts a pass
SyncReceived ==
  /\ sync_pc = "select"
  /\ rx # <<>>
  /\ rx' = Tail(rx)
  /\ sync_pc' = IF starts_pass(Head(rx)) THEN "lock" ELSE "select"
  /\ trigger' = IF starts_pass(Head(rx)) THEN Some(Head(rx)) ELSE None
  /\ UNCHANGED <<initialize_vars, export, session_vars, initialized_vars, supervisor_vars,
                 shutdown_pc, path_exists, batches, pass_files, pass_open, pass_published,
                 last_publish>>
  /\ ServiceUnchanged

\* the `cancel_token.cancelled()` branch of the select: the loop and the
\* task end
SyncCancelled ==
  /\ sync_pc = "select"
  /\ cancel_token
  /\ sync_pc' = "returned"
  /\ UNCHANGED <<initialize_vars, export, session_vars, initialized_vars, supervisor_vars,
                 shutdown_pc, path_exists, rx, batches, trigger, pass_files, pass_open,
                 pass_published, last_publish>>
  /\ ServiceUnchanged

\* the pass written without the clone of the set: its loop goes over every
\* document it has a list for
SyncStartPassOverEveryDocument ==
  /\ sync_pc = "lock"
  /\ state_writer = "none"
  /\ pass_files' \in Orders(Documents)
  /\ pass_open' = open_files
  /\ pass_published' = <<>>
  /\ sync_pc' = "publish"
  /\ UNCHANGED <<initialize_vars, export, session_vars, initialized_vars, supervisor_vars,
                 shutdown_pc, path_exists, rx, batches, trigger, last_publish>>
  /\ ServiceUnchanged

\* `state.read().await`: the open files are cloned, in the order the HashSet
\* iterates them, and the lock is dropped
SyncStartPass ==
  /\ sync_pc = "lock"
  /\ state_writer = "none"
  /\ pass_files' \in Orders(open_files)
  /\ pass_open' = open_files
  /\ pass_published' = <<>>
  /\ sync_pc' = "publish"
  /\ UNCHANGED <<initialize_vars, export, session_vars, initialized_vars, supervisor_vars,
                 shutdown_pc, path_exists, rx, batches, trigger, last_publish>>
  /\ ServiceUnchanged

\* one turn of the loop written with a test: a document without diagnostics
\* is passed over
SyncPublishSkipsEmpty ==
  /\ sync_pc = "publish"
  /\ pass_files # <<>>
  /\ \E sent \in {client /\ diagnostics_vec(Head(pass_files)) # <<>>} :
       /\ last_publish' =
            IF sent THEN publish("steady loop", Head(pass_files)) ELSE last_publish
       /\ pass_published' =
            IF sent
            THEN Append(pass_published, published_params("steady loop", Head(pass_files)))
            ELSE pass_published
  /\ pass_files' = Tail(pass_files)
  /\ UNCHANGED <<initialize_vars, export, session_vars, initialized_vars, supervisor_vars,
                 shutdown_pc, sync_pc, path_exists, rx, batches, trigger, pass_open>>
  /\ ServiceUnchanged

\* one turn of `for uri in open_files.iter()`: Bacon::publish_diagnostics
SyncPublish ==
  /\ sync_pc = "publish"
  /\ pass_files # <<>>
  /\ last_publish' = publish("steady loop", Head(pass_files))
  /\ pass_published' =
       IF client
       THEN Append(pass_published, published_params("steady loop", Head(pass_files)))
       ELSE pass_published
  /\ pass_files' = Tail(pass_files)
  /\ UNCHANGED <<initialize_vars, export, session_vars, initialized_vars, supervisor_vars,
                 shutdown_pc, sync_pc, path_exists, rx, batches, trigger, pass_open>>
  /\ ServiceUnchanged

\* the pass is over: back to the select
SyncPassDone ==
  /\ sync_pc = "publish"
  /\ pass_files = <<>>
  /\ sync_pc' = "select"
  /\ trigger' = None
  /\ pass_open' = {}
  /\ pass_published' = <<>>
  /\ UNCHANGED <<initialize_vars, export, session_vars, initialized_vars, supervisor_vars,
                 shutdown_pc, path_exists, rx, batches, pass_files, last_publish>>
  /\ ServiceUnchanged

\* did_open: the document is inserted under the write lock and last_publish
DidOpen(document) ==
  /\ initialize_pc = "returned"
  /\ opens < MaxOpens
  /\ state_writer = "none"
  /\ open_files' = open_files \cup {document}
  /\ last_publish' = publish("did_open", document)
  /\ opens' = opens + 1
  /\ UNCHANGED <<initialize_vars, export, cancel_token, state_writer,
                 bacon_command_handle, sync_files_handle, initialized_vars,
                 supervisor_vars, shutdown_pc, sync_vars>>
  /\ ServiceUnchanged

\* did_close: the document is removed under the write lock and last_publish
DidClose(document) ==
  /\ state_writer = "none"
  /\ document \in open_files
  /\ open_files' = open_files \ {document}
  /\ last_publish' = publish("did_close", document)
  /\ UNCHANGED <<initialize_vars, export, cancel_token, state_writer,
                 bacon_command_handle, sync_files_handle, opens, initialized_vars,
                 supervisor_vars, shutdown_pc, sync_vars>>
  /\ ServiceUnchanged

\* did_delete_files, for one file of the notification: the document is removed
\* under the write lock
DidDeleteFiles(document) ==
  /\ state_writer = "none"
  /\ document \in open_files
  /\ open_files' = open_files \ {document}
  /\ UNCHANGED <<initialize_vars, export, cancel_token, state_writer, bacon_command_handle,
                 sync_files_handle, opens, initialized_vars, supervisor_vars, shutdown_pc,
                 sync_vars, last_publish>>
  /\ ServiceUnchanged

\* did_rename_files, for one file of the notification: under the write lock
\* the old document is removed and the new one inserted, then the new one
\* is published
DidRenameFiles(old_uri, new_uri) ==
  /\ initialize_pc = "returned"
  /\ opens < MaxOpens
  /\ state_writer = "none"
  /\ old_uri # new_uri
  /\ open_files' = (open_files \ {old_uri}) \cup {new_uri}
  /\ last_publish' = publish("did_rename_files", new_uri)
  /\ opens' = opens + 1
  /\ UNCHANGED <<initialize_vars, export, cancel_token, state_writer, bacon_command_handle,
                 sync_files_handle, initialized_vars, supervisor_vars, shutdown_pc,
                 sync_vars>>
  /\ ServiceUnchanged

NextService ==
  \/ \E supports_diagnostics \in BOOLEAN, ops \in InitializationOptions,
        update_on_change \in BOOLEAN :
       Initialize(supports_diagnostics, ops, update_on_change)
  \/ InitializeFoundGitRoot
  \/ InitializedValidate
  \/ InitializedNoClient
  \/ InitializedSkipBacon
  \/ RunInBackground
  \/ InitializedStarted
  \/ InitializedStartFailed
  \/ InitializedSpawnSync
  \/ ChildExits
  \/ SupervisorChildWaited
  \/ SupervisorCancelled
  \/ ShutdownCancel
  \/ ShutdownJoinedBacon
  \/ ShutdownTakeSync
  \/ ShutdownJoinedSync
  \/ ShutdownReturns
  \/ SyncReadState
  \/ SyncWatch
  \/ SyncWatchFails
  \/ SyncRetry
  \/ PathCreated
  \/ \E batch \in Batches : Debounced(batch)
  \/ SyncReceived
  \/ SyncCancelled
  \/ SyncStartPass
  \/ SyncPublish
  \/ SyncPassDone
  \/ \E document \in Documents : DidOpen(document)
  \/ \E document \in Documents : DidClose(document)
  \/ \E document \in Documents : DidDeleteFiles(document)
  \/ \E old_uri \in Documents, new_uri \in Documents : DidRenameFiles(old_uri, new_uri)

SpecService == InitService /\ [][NextService]_vars

\* the runtime polls every task that is ready: a task whose next step stays
\* possible takes it
TasksRun ==
  /\ WF_vars(SupervisorChildWaited)
  /\ WF_vars(SupervisorCancelled)
  /\ WF_vars(SyncReadState)
  /\ WF_vars(SyncWatch)
  /\ WF_vars(SyncWatchFails)
  /\ WF_vars(SyncRetry)
  /\ WF_vars(SyncReceived)
  /\ WF_vars(SyncCancelled)
  /\ WF_vars(SyncStartPass)
  /\ WF_vars(SyncPublish)
  /\ WF_vars(SyncPassDone)

SpecServiceFair == SpecService /\ TasksRun

(***************************************************************************)
(* The document harness: the notifications about documents, handled beside *)
(* the steady loop of a session that `initialized` has set up. A handler   *)
(* that publishes is two steps: Bacon::publish_diagnostics reads the       *)
(* export files, then sends what it read to the client.                    *)
(***************************************************************************)
MaxNotifications == 3

\* what the export files hold for the documents: the error of DocA, or
\* nothing once it is fixed
ExportContents == {Exported, NotExported}

\* a notification about one document, or about the two of a rename
Notification(method, document) == [method |-> method, uri |-> document]
Rename(old_uri, new_uri) ==
  [method |-> "did_rename_files", uri |-> old_uri, new_uri |-> new_uri]

\* the session of the Bacon backend after `initialize` and `initialized`
\* without a bacon of its own: the watcher is registered on the export file
\* and the steady loop waits in its select
InitDocuments ==
  /\ ParserIdle
  /\ DedupIdle
  /\ ReaderIdle
  /\ CargoIdle
  /\ overflow_checks = FALSE /\ uri = DocA /\ diagnostics = <<>>
  /\ client = TRUE
  /\ initialize_pc = "returned"
  /\ backend = "Bacon"
  /\ run_bacon_in_background = FALSE
  /\ sync_fn = Bacon_syncronize_diagnostics
  /\ cancel_token = FALSE /\ state_writer = "none"
  /\ bacon_command_handle = None /\ sync_files_handle = Some("sync")
  /\ open_files = {} /\ opens = 0
  /\ initialized_pc = "returned" /\ run_result = "none" /\ shown = <<>> /\ spawns = 0
  /\ child = "none" /\ supervisor = "none" /\ shutdown_pc = "none"
  /\ sync_pc = "select" /\ path_exists = TRUE /\ rx = <<>> /\ batches = 0
  /\ trigger = None /\ pass_files = <<>> /\ last_publish = None
  /\ pass_open = {} /\ pass_published = <<>>
  /\ export \in ExportContents
  /\ notified = 0 /\ last_notification = None /\ pending = None
  /\ earlier = None

\* what no step of the document harness changes
DocumentsConstant ==
  UNCHANGED <<overflow_checks, parser_vars, dedup_vars, uri, diagnostics, env_vars,
              reader_vars, cargo_vars, client, sync_fn, run_bacon_in_background,
              initialize_vars, initialized_vars, supervisor_vars, cancel_token,
              state_writer, bacon_command_handle, sync_files_handle, shutdown_pc,
              sync_pc, path_exists, trigger, pass_files, pass_open, pass_published,
              earlier>>

\* bacon rewrites its export file, with other records or with the same, and
\* the debouncer of the watcher sends the batch of the modification
ExportWritten(contents) ==
  /\ sync_pc \in {"select", "lock", "publish"}
  /\ batches < MaxBatches
  /\ export' = contents
  /\ rx' = Append(rx, OkBatch(<<"Modify(Data)">>))
  /\ batches' = batches + 1
  /\ UNCHANGED <<open_files, opens, last_publish, documents_vars>>
  /\ DocumentsConstant

\* did_rename_files written without the removal of the old document
did_rename_files_keeping_old(old_uri, new_uri) ==
  /\ notified < MaxNotifications
  /\ opens < MaxOpens
  /\ state_writer = "none"
  /\ pending = None
  /\ old_uri # new_uri
  /\ open_files' = open_files \cup {new_uri}
  /\ pending' = Some(published_params("did_rename_files", new_uri))
  /\ opens' = opens + 1
  /\ notified' = notified + 1
  /\ last_notification' = Some(Rename(old_uri, new_uri))
  /\ UNCHANGED <<export, rx, batches, last_publish>>
  /\ DocumentsConstant

\* did_open: the document is inserted under the write lock; then
\* publish_diagnostics reads the export files for it
did_open(document) ==
  /\ notified < MaxNotifications
  /\ opens < MaxOpens
  /\ state_writer = "none"
  /\ pending = None
  /\ open_files' = open_files \cup {document}
  /\ pending' = Some(published_params("did_open", document))
  /\ opens' = opens + 1
  /\ notified' = notified + 1
  /\ last_notification' = Some(Notification("did_open", document))
  /\ UNCHANGED <<export, rx, batches, last_publish>>
  /\ DocumentsConstant

\* did_close: the document is removed under the write lock; then
\* publish_diagnostics reads the export files for it
did_close(document) ==
  /\ notified < MaxNotifications
  /\ state_writer = "none"
  /\ pending = None
  /\ open_files' = open_files \ {document}
  /\ pending' = Some(published_params("did_close", document))
  /\ notified' = notified + 1
  /\ last_notification' = Some(Notification("did_close", document))
  /\ UNCHANGED <<export, rx, batches, last_publish, opens>>
  /\ DocumentsConstant

\* did_delete_files, for one file of the notification: the document is
\* removed under the write lock
did_delete_files(document) ==
  /\ notified < MaxNotifications
  /\ state_writer = "none"
  /\ open_files' = open_files \ {document}
  /\ notified' = notified + 1
  /\ last_notification' = Some(Notification("did_delete_files", document))
  /\ UNCHANGED <<export, rx, batches, last_publish, opens, pending>>
  /\ DocumentsConstant

\* did_rename_files, for one file of the notification: under the write lock
\* the old document is removed and the new one inserted; then
\* publish_diagnostics reads the export files for the new one
did_rename_files(old_uri, new_uri) ==
  /\ notified < MaxNotifications
  /\ opens < MaxOpens
  /\ state_writer = "none"
  /\ pending = None
  /\ old_uri # new_uri
  /\ open_files' = (open_files \ {old_uri}) \cup {new_uri}
  /\ pending' = Some(published_params("did_rename_files", new_uri))
  /\ opens' = opens + 1
  /\ notified' = notified + 1
  /\ last_notification' = Some(Rename(old_uri, new_uri))
  /\ UNCHANGED <<export, rx, batches, last_publish>>
  /\ DocumentsConstant

\* did_save: the preferences are read under the read lock; with updateOnSave
\* the handler sleeps for the configured wait, and then publish_diagnostics
\* reads the export files for the document
did_save(document, update_on_save) ==
  /\ notified < MaxNotifications
  /\ state_writer = "none"
  /\ pending = None
  /\ pending' = IF update_on_save THEN Some(published_params("did_save", document))
                ELSE None
  /\ notified' = notified + 1
  /\ last_notification' = Some(Notification("did_save", document))
  /\ UNCHANGED <<export, rx, batches, last_publish, open_files, opens>>
  /\ DocumentsConstant

\* did_change with the Bacon backend: the preferences are read under the
\* read lock and there is nothing to do
did_change(document) ==
  /\ notified < MaxNotifications
  /\ state_writer = "none"
  /\ backend = "Bacon"
  /\ notified' = notified + 1
  /\ last_notification' = Some(Notification("did_change", document))
  /\ UNCHANGED <<export, rx, batches, last_publish, open_files, opens, pending>>
  /\ DocumentsConstant

\* `client.publish_diagnostics(uri.clone(), diagnostics_vec, None).await` of
\* a handler: what it had read is sent
client_publish_diagnostics ==
  /\ pending # None
  /\ last_publish' = IF client THEN pending ELSE last_publish
  /\ pending' = None
  /\ UNCHANGED <<export, rx, batches, open_files, opens, notified, last_notification>>
  /\ DocumentsConstant

NextDocuments ==
  \/ \E contents \in ExportContents : ExportWritten(contents)
  \/ \E document \in Documents : did_open(document)
  \/ \E document \in Documents : did_close(document)
  \/ \E document \in Documents : did_delete_files(document)
  \/ \E old_uri \in Documents, new_uri \in Documents : did_rename_files(old_uri, new_uri)
  \/ \E document \in Documents, update_on_save \in BOOLEAN :
       did_save(document, update_on_save)
  \/ \E document \in Documents : did_change(document)
  \/ client_publish_diagnostics
  \/ SyncReceived
  \/ SyncCancelled
  \/ SyncStartPass
  \/ SyncPublish
  \/ SyncPassDone
  \/ ShutdownCancel
  \/ ShutdownTakeSync
  \/ ShutdownJoinedSync
  \/ ShutdownReturns

SpecDocuments == InitDocuments /\ [][NextDocuments]_vars

(***************************************************************************)
(* Properties of the Deduplicator.                                         *)
(***************************************************************************)
\* the identity of a diagnostic within a document: range, severity, message
SameIdentity(a, b) ==
  a.range = b.range /\ a.severity = b.severity /\ a.message = b.message

\* the diagnostics that were given to Add for document doc, in call order
AddedFor(added, doc) ==
  LET mine == SelectSeq(added, LAMBDA e : e.path = doc)
  IN [i \in 1..Len(mine) |-> mine[i].diagnostic]

\* the list Bacon holds for the requested document
BaconList == [i \in 1..Len(diagnostics) |-> diagnostics[i].diagnostic]

NoDuplicates(list) ==
  \A i, j \in 1..Len(list) : i < j => ~ SameIdentity(list[i], list[j])

\* every identity given to Add is in the list, and the entry the list holds
\* for it is, payload included, the first one that was given
FirstIsKept(list, added) ==
  /\ \A k \in 1..Len(added) : \E i \in 1..Len(list) : SameIdentity(list[i], added[k])
  /\ \A i \in 1..Len(list) :
       \E k \in 1..Len(added) :
         /\ added[k] = list[i]
         /\ \A j \in 1..(k - 1) : ~ SameIdentity(added[j], list[i])

\* the calls that brought an identity for the first time
FirstCalls(added) ==
  {k \in 1..Len(added) : \A j \in 1..(k - 1) : ~ SameIdentity(added[j], added[k])}

\* the list is exactly the first calls, in call order
FirstSeenOrder(list, added) ==
  LET first == FirstCalls(added) IN
  /\ Len(list) = Cardinality(first)
  /\ \A k \in first : list[Cardinality({j \in first : j <= k})] = added[k]

\* C1: after any sequence of Add operations no document's list holds two
\* entries with equal range, severity and message; of the diagnostics that
\* differ only in their correction payload the first one given is the one kept.
C1_NoDuplicateIdentity ==
  /\ NoDuplicates(BaconList)
  /\ FirstIsKept(BaconList, AddedFor(bacon_added, uri))
  /\ \A e \in 1..Len(diagnostics) : diagnostics[e].path = uri
  /\ \A doc \in DOMAIN cargo_diagnostics :
       /\ NoDuplicates(cargo_diagnostics[doc])
       /\ FirstIsKept(cargo_diagnostics[doc], AddedFor(cargo_added, doc))

\* two diagnostics of the same document that differ only in the payload have
\* been given to each backend
PayloadOnlyDuplicate(added) ==
  \E i, j \in 1..Len(added) :
    /\ i < j
    /\ SameIdentity(added[i], added[j])
    /\ added[i].data # added[j].data

C1_Witness ==
  /\ PayloadOnlyDuplicate(AddedFor(bacon_added, uri))
  /\ Len(diagnostics) = 1
  /\ PayloadOnlyDuplicate(AddedFor(cargo_added, uri))
  /\ Len(cargo_diagnostics[uri]) = 1

\* C2: Add is idempotent and order preserving: a diagnostic whose identity
\* is already in the document's list leaves the list as it is, a new one goes
\* to the end, so every list is its distinct entries in first-seen order.
C2_FirstSeenOrder ==
  /\ FirstSeenOrder(BaconList, AddedFor(bacon_added, uri))
  /\ \A doc \in Documents :
       FirstSeenOrder(IF doc \in DOMAIN cargo_diagnostics
                      THEN cargo_diagnostics[doc] ELSE <<>>,
                      AddedFor(cargo_added, doc))

\* a diagnostic was added, then another one, then the first one again
C2_Witness ==
  LET added == AddedFor(bacon_added, uri) IN
  /\ Len(added) = 3
  /\ SameIdentity(added[1], added[3])
  /\ ~ SameIdentity(added[1], added[2])
  /\ BaconList = <<added[1], added[2]>>

(***************************************************************************)
(* Properties of the LineFormatParser.                                     *)
(***************************************************************************)
\* the fields the delimiter splits the record into
Fields == split(line, DELIMITER)
WasParsed == parsed # NotParsed

\* the number a position text of the harness denotes
PositionValue(t) == CHOOSE n \in 1..10 : to_string(n) = t

\* nine fields, the four positions positive integers
WellFormed ==
  /\ Len(Fields) = 9
  /\ \A k \in 3..6 : Fields[k] \in PositionTexts

\* C4: for a well-formed record with 1-based positions the range starts at
\* (line_start - 1, column_start - 1) and ends at (line_end - 1, column_end - 1).
C4_RangeIsZeroBased ==
  (WasParsed /\ WellFormed) =>
    /\ parsed.kind = "Some"
    /\ parsed.diagnostic.range.start.line = PositionValue(Fields[3]) - 1
    /\ parsed.diagnostic.range.end.line = PositionValue(Fields[4]) - 1
    /\ parsed.diagnostic.range.start.character = PositionValue(Fields[5]) - 1
    /\ parsed.diagnostic.range.end.character = PositionValue(Fields[6]) - 1

\* the scenario record: positions 10, 10, 1, 5 give the range (9,0)-(9,4)
C4_Witness ==
  /\ line = ScenarioLine
  /\ parsed.kind = "Some"
  /\ parsed.diagnostic.range = Range(Position(9, 0), Position(9, 4))
  /\ parsed.diagnostic.severity = "ERROR"
  /\ parsed.diagnostic.data = None

\* the severity table of the specification, keyword by keyword
SeverityTable(keyword) ==
  CASE keyword = "warning" -> "WARNING"
    [] keyword = "info" -> "INFORMATION"
    [] keyword = "information" -> "INFORMATION"
    [] keyword = "note" -> "INFORMATION"
    [] keyword = "failure-note" -> "INFORMATION"
    [] keyword = "hint" -> "HINT"
    [] keyword = "help" -> "HINT"
    [] keyword = "error" -> "ERROR"
    [] keyword \in {"Warning", "ERROR", "Help", "bug", ""} -> "ERROR"

\* C5: the severity of the diagnostic is the one the table gives for the
\* keyword, compared case-sensitively; any other keyword gives Error.
C5_SeverityMapping ==
  (WasParsed /\ WellFormed) =>
    /\ parsed.kind = "Some"
    /\ parsed.diagnostic.severity = SeverityTable(Fields[1])

C5_Witness ==
  /\ parsed.kind = "Some"
  /\ Fields[1] = "failure-note"
  /\ parsed.diagnostic.severity = "INFORMATION"

\* C6 as stated: every input that the delimiter does not split into exactly
\* nine fields, fewer or more, is rejected.
C6_ExactlyNineFields ==
  (WasParsed /\ Len(Fields) # 9) => parsed.kind = "None"

\* C6 as amended: an input of fewer than nine fields is rejected; an input of
\* more than nine fields is split at its first eight delimiters and, the
\* positions being positive integers, is accepted with the remainder of the
\* text, delimiters included, as suggested replacement.
C6_FewerThanNineFields ==
  /\ (WasParsed /\ Len(Fields) < 9) => parsed.kind = "None"
  /\ (WasParsed /\ Len(Fields) > 9 /\ \A k \in 3..6 : Fields[k] \in PositionTexts) =>
       /\ parsed.kind = "Some"
       /\ parsed.diagnostic.data =
            Some([corrections |->
                    <<join(SubSeq(Fields, 9, Len(Fields)), DELIMITER)>>])

C6_Witness ==
  /\ Len(Fields) = 10
  /\ parsed.kind = "Some"
  /\ parsed.diagnostic.data = Some([corrections |-> <<"a|:|b">>])

\* C7 as stated: a record in which one of the four position fields is not a
\* positive integer (0, negative, empty, not a number) is rejected, with no
\* panic and no wrapped-around range.
C7_NotPositiveIsRejected ==
  (WasParsed /\ Len(Fields) = 9 /\ \E k \in 3..6 : Fields[k] \in NotPositiveTexts) =>
    parsed.kind = "None"

\* C8: the correction payload is the suggested replacement field when that
\* field is not `none`, and there is no payload when it is `none`.
C8_CorrectionPayload ==
  (WasParsed /\ WellFormed) =>
    /\ parsed.kind = "Some"
    /\ Fields[9] # "none" =>
         parsed.diagnostic.data = Some([corrections |-> <<Fields[9]>>])
    /\ Fields[9] = "none" => parsed.diagnostic.data = None

C8_Witness ==
  /\ parsed.kind = "Some"
  /\ WellFormed
  /\ Fields[9] = "if x {\n    y\n}"
  /\ parsed.diagnostic.data = Some([corrections |-> <<"if x {\n    y\n}">>])

\* what each rendered-message field of the harness reads as once the escape
\* sequences are stripped and the trailing newlines trimmed
RenderedText(rendered) ==
  CASE rendered = "error: bad" -> "error: bad"
    [] rendered = "\f[1merror\f[0m: bad\n" -> "error: bad"
    [] rendered = "l1\nl2\n\n" -> "l1\nl2"
    [] rendered = "" -> ""
    [] rendered = "warning: \f[38;5;9munused\f[m\n" -> "warning: unused"

\* what each message field of the harness reads as once the literal \n
\* sequences are un-escaped and the trailing newlines trimmed
MessageText(message) ==
  CASE message = "bad code" -> "bad code"
    [] message = "first\\nsecond" -> "first\nsecond"
    [] message = "ends\\n" -> "ends"
    [] message = "none" -> "none"
    [] message = "" -> ""

Identity(d) == <<d.range, d.severity, d.message>>

\* the export files a pass opens, each with the directory its records are
\* resolved against
PassReads ==
  {e \in {<<effective_folder_path(workspace_folders[i], git_root), path>> :
            i \in 1..Len(workspace_folders), path \in DOMAIN files} :
     /\ e[2] \in find_bacon_locations(e[1], LOCATIONS_FILE, DOMAIN files)
     /\ files[e[2]].readable}

\* the records of those files in front of any failing read, each with that
\* directory
RecordsRead ==
  UNION {{<<e[1], files[e[2]].records[k]>> : k \in 1..files[e[2]].intact} :
           e \in PassReads}

\* nine fields, the four positions positive integers
WellFormedRecord(record) ==
  /\ Len(split(record, DELIMITER)) = 9
  /\ \A k \in 3..6 :
       /\ parse_u32(split(record, DELIMITER)[k]) # None
       /\ parse_u32(split(record, DELIMITER)[k]) # Some(0)

\* the diagnostic of a well-formed record, by the LineFormatParser
DiagnosticOf(root, record) == parse_bacon_diagnostic_line(record, root, FALSE)

\* a well-formed record whose document is the requested one
WellFormedFor(root, record) ==
  /\ WellFormedRecord(record)
  /\ DiagnosticOf(root, record).kind = "Some"
  /\ DiagnosticOf(root, record).path = uri

ExpectedIdentities ==
  {Identity(DiagnosticOf(e[1], e[2]).diagnostic) :
     e \in {r \in RecordsRead : WellFormedFor(r[1], r[2])}}

\* the pass returned, for the requested document only, one diagnostic for
\* each distinct identity of the well-formed records and nothing else
OnePerDistinctIdentity ==
  /\ NoDuplicates(BaconList)
  /\ \A i \in 1..Len(diagnostics) : diagnostics[i].path = uri
  /\ {Identity(BaconList[i]) : i \in 1..Len(diagnostics)} = ExpectedIdentities

\* C3: a full read pass returns for the requested document exactly one
\* diagnostic per distinct (range, severity, message) among the well-formed
\* records written for that document, whichever export files and workspace
\* folders the records come from.
C3_OnePerDistinctRecord == rpc = "done" => OnePerDistinctIdentity

\* the record is written over several physical lines
MultiLine(record) == find(record, "\n", 1) # 0

\* the record starts with a marker keyword, none of its further lines does,
\* and no line of it ends in white space
Delimited(record) ==
  /\ is_new_diagnostic(text_lines(record)[1])
  /\ \A k \in 2..Len(text_lines(record)) : ~ is_new_diagnostic(text_lines(record)[k])
  /\ \A k \in 1..Len(text_lines(record)) :
       trim_end(text_lines(record)[k]) = text_lines(record)[k]

\* every record the pass reads is delimited, and is well formed if the
\* parser takes it
DelimitedFiles ==
  \A e \in RecordsRead :
    /\ Delimited(e[2])
    /\ DiagnosticOf(e[1], e[2]).kind = "Some" => WellFormedRecord(e[2])

\* the read pass over delimited files: what C3 says holds for them
ReadPassOfDelimitedFiles ==
  (rpc = "done" /\ DelimitedFiles) => OnePerDistinctIdentity

\* two identical records and two distinct ones in two files of two folders
\* gave three diagnostics
ReadPassOfDelimitedFilesWitness ==
  /\ rpc = "done"
  /\ DelimitedFiles
  /\ Len(workspace_folders) = 2
  /\ git_root = None
  /\ files[RootFile].records = <<RecBad, RecRendered>>
  /\ files[SubFile] = [readable |-> TRUE, records |-> <<RecBad>>, intact |-> 1]
  /\ Len(diagnostics) = 2

\* C10: a read pass yields exactly one diagnostic for every well-formed
\* record that spans several physical lines, with the message of the whole
\* record, whatever text its continuation lines begin with.
C10_MultiLineRecordYieldsOne ==
  rpc = "done" =>
    \A e \in RecordsRead :
      (MultiLine(e[2]) /\ WellFormedFor(e[1], e[2])) =>
        Cardinality({i \in 1..Len(diagnostics) :
                       /\ diagnostics[i].path = uri
                       /\ diagnostics[i].diagnostic =
                            DiagnosticOf(e[1], e[2]).diagnostic}) = 1

\* not nine fields, or a position that is not a positive integer
Malformed(record) == ~ WellFormedRecord(record)

\* the diagnostic of record k of a file the pass reads is among the returned
ProducedItsDiagnostic(root, record) ==
  \E i \in 1..Len(diagnostics) :
    /\ diagnostics[i].path = uri
    /\ SameIdentity(diagnostics[i].diagnostic, DiagnosticOf(root, record).diagnostic)

\* C11: a malformed record of an export file yields no diagnostic and does
\* not abort the scan: every well-formed record that follows it in the same
\* file still produces its diagnostic.
C11_MalformedRecordIsSkipped ==
  /\ rpc # "panicked"
  /\ rpc = "done" =>
       \A e \in PassReads :
         \A j \in 1..files[e[2]].intact :
           Malformed(files[e[2]].records[j]) =>
             /\ DiagnosticOf(e[1], files[e[2]].records[j]).kind = "Some" =>
                  ~ ProducedItsDiagnostic(e[1], files[e[2]].records[j])
             /\ \A k \in (j + 1)..files[e[2]].intact :
                  WellFormedFor(e[1], files[e[2]].records[k]) =>
                    ProducedItsDiagnostic(e[1], files[e[2]].records[k])

\* one export file read on its own, from its first line to the flush at its
\* end or at its first failing read: the diagnostics it adds to `into`
RECURSIVE ReadAlone(_, _, _, _), ReadAloneAfter(_, _, _)
ReadAlone(rest, buf, root, into) ==
  IF rest = <<>> \/ Head(rest) = IoError
  THEN end_of_file(buf, root, uri, into, overflow_checks).diagnostics
  ELSE ReadAloneAfter(read_line(Head(rest), buf, root, uri, into, overflow_checks),
                      Tail(rest), root)

ReadAloneAfter(step, rest, root) ==
  ReadAlone(rest, step.buffer, root, step.flushed.diagnostics)

IdentitiesOf(list) == {Identity(list[i].diagnostic) : i \in 1..Len(list)}

\* what every export file that can be opened contributes when read alone
ContributionsOfReadableFiles ==
  UNION {IdentitiesOf(ReadAlone(lines_of(files[e[2]]), "", e[1], <<>>)) : e \in PassReads}

\* an export file that cannot be opened is among the discovered ones
SomeFileCannotBeOpened ==
  \E i \in 1..Len(workspace_folders) :
    \E path \in find_bacon_locations(
                   effective_folder_path(workspace_folders[i], git_root),
                   LOCATIONS_FILE, DOMAIN files) :
      ~ files[path].readable

\* a record with a position 0 is read by a build with overflow checks
ZeroPositionIsRead ==
  /\ overflow_checks
  /\ \E e \in RecordsRead : \E k \in 1..Len(text_lines(e[2])) :
       \E f \in 3..6 : f <= Len(split_line(text_lines(e[2])[k]))
                          /\ split_line(text_lines(e[2])[k])[f] = "0"

\* C14: an export file that cannot be opened contributes nothing and does
\* not end the pass: the pass returns what the other discovered export
\* files, of the same and of the other workspace folders, contribute, and it
\* fails only where a record of a file it did open makes the parser fail.
C14_UnopenableFileIsSkipped ==
  SomeFileCannotBeOpened =>
    /\ rpc = "done" => IdentitiesOf(diagnostics) = ContributionsOfReadableFiles
    /\ rpc = "panicked" => ZeroPositionIsRead

\* the file that cannot be opened was met first, and the two records of the
\* file after it were returned
C14_Witness ==
  /\ rpc = "done"
  /\ workspace_folders = <<RootDir>>
  /\ bacon_locations = <<SubFile, RootFile>>
  /\ ~ files[SubFile].readable
  /\ files[RootFile].records = <<RecBad, RecRendered>>
  /\ Len(diagnostics) = 2

C13_NoDocumentNoFilter ==
  uri = None =>
    \A k \in 1..Len(bacon_added) :
      \E i \in 1..Len(diagnostics) :
        /\ diagnostics[i].path = bacon_added[k].path
        /\ SameIdentity(diagnostics[i].diagnostic, bacon_added[k].diagnostic)

\* what the snapshot operation returns when it is called with no document
SnapshotWithoutDocumentIsEmpty == uri = None => diagnostics = <<>>

\* called with a document, the snapshot operation returns that document's
\* records
SnapshotWithDocument ==
  uri # None =>
    /\ \A i \in 1..Len(diagnostics) : Some(diagnostics[i].path) = uri
    /\ \A k \in 1..Len(bacon_added) :
         Some(bacon_added[k].path) = uri =>
           \E i \in 1..Len(diagnostics) :
             SameIdentity(diagnostics[i].diagnostic, bacon_added[k].diagnostic)

(***************************************************************************)
(* Properties of the ProcessSupervisor.                                    *)
(***************************************************************************)
\* the handle of the supervisor task has resolved; the task has no failing
\* path, so it resolves with Ok
HandleResolved == supervisor = "finished"

\* one of the two events the supervisor task waits for has happened
ChildExitedOrCancelled == cancel_token \/ child = "exited"

\* C15: the handle run_in_background returns resolves as soon as the child
\* has exited on its own or cancellation is signalled, and not before; when
\* it has resolved the child is not running: it has exited, or it was
\* killed, which happens only after cancellation.
C15_HandleResolvesAndChildIsKilled ==
  /\ [](HandleResolved => child \in {"exited", "killed"})
  /\ [](child = "killed" => cancel_token /\ HandleResolved)
  /\ (supervisor = "waiting" /\ ChildExitedOrCancelled) ~> HandleResolved

\* cancellation was signalled while the child was running: the handle has
\* resolved and the child is killed
C15_Witness ==
  /\ cancel_token
  /\ HandleResolved
  /\ child = "killed"

(***************************************************************************)
(* Properties of the start of bacon.                                       *)
(***************************************************************************)
\* command.spawn() failed: run_in_background returned Err to `initialized`
SpawnFailed == run_result = "Err"

\* the Err arm of `initialized` has been run
FailureHandled == SpawnFailed /\ initialized_pc \in {"sync", "returned"}

SteadyLoopPublished == last_publish # None /\ last_publish[1].by = "steady loop"

\* a pass is in progress: its trigger is received and its last publish not
\* yet made
PassInProgress == sync_pc \in {"lock", "publish"}

\* a received batch starts at most one pass, however many events it holds:
\* the loop leaves the select for a pass only by taking one batch, which
\* holds an event that is_modify, out of the channel
BatchStartsOnePass ==
  [][(sync_pc = "select" /\ sync_pc' = "lock") =>
       /\ rx # <<>> /\ rx' = Tail(rx)
       /\ starts_pass(Head(rx))
       /\ trigger' = Some(Head(rx))]_vars

\* a pass in progress and a publish of the steady loop come from a batch
\* that is Ok and holds an event for which is_modify is true
PassOnlyAfterIsModify ==
  /\ PassInProgress => trigger # None /\ starts_pass(trigger[1])
  /\ SteadyLoopPublished =>
       last_publish[1].trigger # None /\ starts_pass(last_publish[1].trigger[1])

\* a modify event as opposed to a creation event and a metadata event
ContentModify(kind) == is_modify(kind) /\ kind # "Modify(Metadata)"

\* the batch is Ok and holds a modify event
HoldsContentModify(batch) ==
  /\ batch.ok
  /\ \E k \in 1..Len(batch.events) : ContentModify(batch.events[k])

\* C18: a pass is started, and a publish made by it, only for a batch that
\* holds at least one modify event; a batch of creation events only, a batch
\* of metadata events only and a watcher error start no pass.
C18_OnlyModifyBatchesStartAPass ==
  /\ PassInProgress => trigger # None /\ HoldsContentModify(trigger[1])
  /\ SteadyLoopPublished =>
       /\ last_publish[1].trigger # None
       /\ HoldsContentModify(last_publish[1].trigger[1])

\* C19: a failing watch registration is never fatal to the synchronization
\* task: the task does not end by it, and tries again until it succeeds.
C19_RegistrationFailureIsNotFatal == sync_pc # "panicked"

\* the registration of Bacon::syncronize_diagnostics: once the path exists,
\* the retries end and the steady loop is entered
BaconRetriesUntilRegistered ==
  (/\ sync_fn = Bacon_syncronize_diagnostics
   /\ sync_pc \in {"watch", "sleep"}
   /\ path_exists) ~> sync_pc = "select"

\* Bacon::syncronize_diagnostics never ends by a failing registration
BaconRegistrationIsNotFatal ==
  sync_fn = Bacon_syncronize_diagnostics => sync_pc # "panicked"

\* C20: the steady loop makes no publish once cancellation is signalled,
\* whether a trigger was pending or a pass was in progress at that moment.
C20_NoPublishAfterCancellation ==
  SteadyLoopPublished => ~ last_publish[1].cancelled

\* once cancellation is signalled and the loop is back at its select with
\* an empty channel, the loop ends
SteadyLoopEndsAtSelect ==
  (cancel_token /\ sync_pc = "select" /\ rx = <<>> /\ batches = MaxBatches)
    ~> sync_pc = "returned"

(***************************************************************************)
(* Properties of the passes of the steady loop.                            *)
(***************************************************************************)
\* the documents the pass in progress has published for
PublishedInPass == {pass_published[k].uri : k \in 1..Len(pass_published)}

\* the pass in progress has published an empty list for the document
PublishedEmpty(document) ==
  \E k \in 1..Len(pass_published) :
    /\ pass_published[k].uri = document
    /\ pass_published[k].diagnostics = <<>>

\* the pass has published once for each document of the open set it cloned,
\* with an empty list for a document no record of the export is located in
PassCoversOpenSet ==
  /\ PublishedInPass = pass_open
  /\ Len(pass_published) = Cardinality(pass_open)
  /\ \A document \in pass_open : Exported[document] = <<>> => PublishedEmpty(document)

\* C21: a pass of the steady loop, started by a trigger of the watcher,
\* publishes for every document of the open set it cloned under the lock
\* before it goes back to the select, none skipped, and it publishes the
\* empty list for an open document without diagnostics; a pass that has
\* cloned the open set runs to its end
C21_PassPublishesEveryOpenDocument ==
  /\ [][(SyncPassDone /\ client) => PassCoversOpenSet]_vars
  /\ [][SyncStartPass => (trigger # None /\ pass_open' = open_files)]_vars
  /\ (sync_pc = "publish") ~> (sync_pc = "select")

\* a pass has published for two open documents, for one of them the empty list
C21_Witness ==
  /\ sync_pc = "publish"
  /\ pass_files = <<>>
  /\ pass_open = Documents
  /\ Len(pass_published) = 2
  /\ PublishedEmpty(DocB)
  /\ ~ PublishedEmpty(DocA)

(***************************************************************************)
(* Properties of the publishes.                                            *)
(***************************************************************************)
\* C22: every publish carries a version number, taken from a counter that
\* only grows and is incremented before the recomputation starts: the latest
\* publish made to the client has a version
C22_PublishCarriesAVersion ==
  last_publish # None => last_publish[1].version # None


\* the handlers that change the open files and publish after they did
PublishingHandlers == {"did_open", "did_rename_files"}

\* did_open publishes the opened document, did_rename_files the new one
OpenAndRenamePublishTheirDocument ==
  /\ [][\A document \in Documents :
          (DidOpen(document) /\ client) =>
            /\ last_publish'[1].uri = document
            /\ last_publish'[1].by = "did_open"]_vars
  /\ [][\A old_uri \in Documents, new_uri \in Documents :
          (DidRenameFiles(old_uri, new_uri) /\ client) =>
            /\ last_publish'[1].uri = new_uri
            /\ last_publish'[1].by = "did_rename_files"]_vars

\* did_delete_files removes the document and publishes nothing
DeleteOnlyUpdatesTheSet ==
  [][\A document \in Documents :
       DidDeleteFiles(document) =>
         /\ open_files' = open_files \ {document}
         /\ last_publish' = last_publish]_vars

\* C23: a change of the open files causes a publish only on open and on
\* rename: the latest publish that a handler made after changing the open
\* files was made by did_open or by did_rename_files, never by did_close or
\* did_delete_files
C23_OnlyOpenAndRenamePublish ==
  (last_publish # None /\ last_publish[1].by # "steady loop")
    => last_publish[1].by \in PublishingHandlers


(***************************************************************************)
(* Properties of the session state.                                        *)
(***************************************************************************)
\* C26: the backend is fixed at initialization: once `initialize` has
\* returned, no step of a handler, of a task or of the environment changes
\* the backend of the State, and `initialize` is not entered again
C26_BackendIsFixedAtInitialization ==
  [][initialize_pc = "returned" =>
       /\ backend' = backend
       /\ initialize_pc' = "returned"]_vars

\* a session of the Cargo backend in which a document was opened, a pass of
\* the steady loop has published and `shutdown` has returned
C26_Witness ==
  /\ initialize_pc = "returned"
  /\ backend = "Cargo"
  /\ opens > 0
  /\ SteadyLoopPublished
  /\ shutdown_pc = "returned"


(***************************************************************************)
(* Properties of `shutdown`.                                               *)
(***************************************************************************)
\* the supervisor task and the synchronization task have ended or were
\* never spawned, and no bacon process is running
EverythingStopped ==
  /\ child # "running"
  /\ supervisor # "waiting"
  /\ sync_pc \in {"none", "returned", "panicked"}

\* `shutdown` cancels the token before anything else
ShutdownCancelsFirst == shutdown_pc \notin {"idle", "none"} => cancel_token

\* a `shutdown` that found the handles `initialized` had stored returns
\* after both tasks have ended and the bacon process is stopped
ShutdownAfterInitializedJoinsBoth ==
  (/\ shutdown_pc = "returned"
   /\ initialized_pc = "returned"
   /\ bacon_command_handle = None
   /\ sync_files_handle = None) => EverythingStopped

\* C24: `shutdown` is reported complete only after the token is cancelled,
\* the bacon process is killed and both the supervisor task and the
\* steady-loop task have ended: at the step by which `shutdown` returns, the
\* token is cancelled, no bacon process runs and neither task is still running
C24_ShutdownReturnsAfterEverythingStopped ==
  [][(shutdown_pc # "returned" /\ shutdown_pc' = "returned") =>
       (cancel_token' /\ EverythingStopped')]_vars


\* a handler is suspended at an await that is not the lock's own: `shutdown`
\* awaits the handle of a task, `initialize` the search for the git root
HandlerIsSuspended ==
  \/ shutdown_pc \in {"join_bacon", "join_sync"}
  \/ initialize_pc = "git_root"

\* C25: the lock of the State is never held across a blocking operation or a
\* suspension point (a sleep, the await of a task handle, the reading of
\* files, the run of a subprocess, a publish): while a handler is suspended
\* at such a point, the write lock is free
C25_LockIsNotHeldAcrossSuspension ==
  HandlerIsSuspended => state_writer = "none"


(***************************************************************************)
(* Properties of the supervision of bacon.                                 *)
(***************************************************************************)
\* bacon is started at most once in a session
BaconIsStartedAtMostOnce == spawns <= 1

\* a stored handle is the handle of the supervisor task of the one process
StoredHandleIsTheSupervisors ==
  bacon_command_handle # None =>
    (bacon_command_handle = Some("supervisor") /\ supervisor # "none")

\* from the end of the Ok arm of `initialized` until `shutdown` is entered,
\* the handle of a running process's supervisor is in the State
HandleIsStoredBetweenStartAndShutdown ==
  (/\ child = "running"
   /\ initialized_pc \in {"sync", "returned"}
   /\ shutdown_pc = "none") => bacon_command_handle = Some("supervisor")

\* C27 as stated: at most one bacon process is supervised per session: in
\* every state at most one process was started, and while it runs the handle
\* of its supervisor task is the one stored in the State
C27_OneChildWithItsHandleStored ==
  /\ spawns <= 1
  /\ child = "running" => bacon_command_handle = Some("supervisor")

\* C27: at most one bacon process is started and supervised per session; a
\* handle stored in the State is the handle of its supervisor task, and the
\* handle of a running process's supervisor is stored from the end of the Ok
\* arm of `initialized` until `shutdown` takes it out
C27_OneChildHandleStoredUntilShutdown ==
  /\ BaconIsStartedAtMostOnce
  /\ StoredHandleIsTheSupervisors
  /\ HandleIsStoredBetweenStartAndShutdown

\* bacon runs, `initialized` has returned and no `shutdown` was entered
C27_Witness ==
  /\ child = "running"
  /\ supervisor = "waiting"
  /\ initialized_pc = "returned"
  /\ shutdown_pc = "none"
  /\ bacon_command_handle = Some("supervisor")


(***************************************************************************)
(* Properties of the Cargo backend.                                        *)
(***************************************************************************)
\* the rendered texts of the lines without their escape sequences and
\* without the line feeds at their end
StrippedRendered ==
  [rendered \in {"\f[33mwarning\f[0m: unused\n", "error: bad\n", "note: see", "later"} |->
     CASE rendered = "\f[33mwarning\f[0m: unused\n" -> "warning: unused"
       [] rendered = "error: bad\n" -> "error: bad"
       [] OTHER -> rendered]

\* the document every file name of a span stands for, None for a file that
\* is not there
SpanLocation ==
  [of_file \in {"src/lib.rs", "/w/lnk.rs", "/w/src/main.rs", "src/gone.rs"} |->
     CASE of_file \in {"src/lib.rs", "/w/lnk.rs"} -> Some("file:///w/src/lib.rs")
       [] of_file = "/w/src/main.rs" -> Some("file:///w/src/main.rs")
       [] OTHER -> None]

\* the severity of every level cargo prints
LevelSeverity ==
  [level \in {"error", "warning", "note", "help"} |->
     CASE level = "error" -> "ERROR"
       [] level = "warning" -> "WARNING"
       [] level = "note" -> "INFORMATION"
       [] OTHER -> "HINT"]

\* a line whose payload is a diagnostic message with all its fields
IsDiagnosticLine(json_line) ==
  /\ "message" \in DOMAIN json_line
  /\ CargoMessageFields \subseteq DOMAIN json_line.message
  /\ json_line.message.message_type = "diagnostic"

\* what a span of the given level and message is to give to the
\* deduplication, and under which document
SpanEmit(level, message, span) ==
  [path |-> SpanLocation[span.file_name][1],
   diagnostic |->
     [range |-> [start |-> [line |-> span.line_start - 1,
                            character |-> span.column_start - 1],
                 end |-> [line |-> span.line_end - 1,
                          character |-> span.column_end - 1]],
      severity |-> LevelSeverity[level],
      source |-> "bacon-ls",
      message |-> message,
      data |-> IF span.suggested_replacement = None THEN None
               ELSE Some([corrections |-> <<span.suggested_replacement[1]>>])]]

HasLocation(span) == SpanLocation[span.file_name] # None

\* one per span whose file is there, in the order of the spans
SpanEmits(level, message, spans) ==
  [k \in 1..Len(SelectSeq(spans, HasLocation)) |->
     SpanEmit(level, message, SelectSeq(spans, HasLocation)[k])]

RECURSIVE ChildrenEmits(_)
ChildrenEmits(children) ==
  IF children = <<>> THEN <<>>
  ELSE SpanEmits(Head(children).level, Head(children).message, Head(children).spans)
       \o ChildrenEmits(Tail(children))

\* the spans of the payload with its rendered text, then the spans of each
\* child with the level and the message of the child
LineEmits(json_line) ==
  IF ~ IsDiagnosticLine(json_line) THEN <<>>
  ELSE SpanEmits(json_line.message.level, StrippedRendered[json_line.message.rendered],
                 json_line.message.spans)
       \o ChildrenEmits(json_line.message.children)

RECURSIVE StdoutEmits(_)
StdoutEmits(json_lines) ==
  IF json_lines = <<>> THEN <<>>
  ELSE LineEmits(Head(json_lines)) \o StdoutEmits(Tail(json_lines))

\* what was given to the deduplication is in the map under its document,
\* or a diagnostic of equal range, severity and message is
EmitsAreRecorded ==
  \A k \in 1..Len(cargo_added) :
    /\ cargo_added[k].path \in DOMAIN cargo_diagnostics
    /\ \E i \in 1..Len(cargo_diagnostics[cargo_added[k].path]) :
         same_diagnostic(cargo_added[k].diagnostic,
                         cargo_diagnostics[cargo_added[k].path][i])

\* every diagnostic of the map was given to the deduplication under the
\* document it is recorded for
RecordedWereEmitted ==
  \A document \in DOMAIN cargo_diagnostics :
    \A i \in 1..Len(cargo_diagnostics[document]) :
      \E k \in 1..Len(cargo_added) :
        cargo_added[k] = [path |-> document, diagnostic |-> cargo_diagnostics[document][i]]

C29_OnlyTheSpanIsDropped ==
  /\ cargo_result # "Err"
  /\ cargo_result = "Ok" =>
       /\ cargo_added = StdoutEmits(stdout)
       /\ EmitsAreRecorded

\* the run over the given lines, from an empty map
RECURSIVE cargo_run(_, _)
cargo_run(json_lines, result) ==
  IF ~ result.ok \/ json_lines = <<>> THEN result
  ELSE cargo_run(Tail(json_lines), process_line(Head(json_lines), result))

\* a line that is not JSON or whose message lacks a field
FailsToDecode(json_line) ==
  \/ "text" \in DOMAIN json_line
  \/ /\ "message" \in DOMAIN json_line
     /\ ~ (CargoMessageFields \subseteq DOMAIN json_line.message)

\* the three kinds of lines that are passed over
IsPassedOver(json_line) ==
  \/ FailsToDecode(json_line)
  \/ "message" \notin DOMAIN json_line
  \/ json_line.message.message_type # "diagnostic"

Contributes(json_line) == ~ IsPassedOver(json_line)

\* C30: the lines are decoded one by one, and a line that fails to decode,
\* an envelope without message and a payload that is not a diagnostic give
\* nothing and do not end the loop: such a line leaves the map and the
\* result as they are and the loop goes to the next line, so that the run
\* ends as the run over the other lines alone does
C30_PassedOverLinesChangeNothing ==
  /\ [][(cargo_result = "running" /\ stdout_i <= Len(stdout)
         /\ IsPassedOver(stdout[stdout_i]))
        => (/\ stdout_i' = stdout_i + 1
            /\ UNCHANGED <<cargo_diagnostics, cargo_added, cargo_result>>)]_vars
  /\ [](cargo_result \in {"Ok", "Err"} =>
          \E alone \in {cargo_run(SelectSeq(stdout, Contributes),
                                  [ok |-> TRUE, diagnostics |-> EmptyMap,
                                   added |-> <<>>])} :
            /\ (cargo_result = "Ok") = alone.ok
            /\ alone.ok => (cargo_diagnostics = alone.diagnostics
                            /\ cargo_added = alone.added))

\* a run that succeeded with a diagnostic from a line that follows a line of
\* each of the three kinds
C30_Witness ==
  /\ cargo_result = "Ok"
  /\ Len(stdout) = 3
  /\ FailsToDecode(stdout[1])
  /\ stdout[2] \in {ArtifactLine, NotDiagnosticLine}
  /\ stdout[3] = NoteLine
  /\ DOMAIN cargo_diagnostics = {"file:///w/src/main.rs"}
  /\ cargo_diagnostics["file:///w/src/main.rs"]
       = <<SpanEmit("note", "note: see", SpanMain).diagnostic>>


(***************************************************************************)
(* Properties of the two backends together.                                *)
(***************************************************************************)
\* C40: the severity Bacon::parse_severity gives to the keyword of a parsed
\* record is the severity Cargo::parse_severity gives to the same keyword,
\* for the keywords of the table and for unknown ones.
C40_BackendsMapSeveritiesAlike ==
  (WasParsed /\ WellFormed) =>
    /\ parsed.kind = "Some"
    /\ parsed.diagnostic.severity = Cargo_parse_severity(Fields[1])


\* for every keyword other than failure-note the two functions agree
BackendsAgreeButOnFailureNote ==
  (WasParsed /\ WellFormed /\ Fields[1] # "failure-note") =>
    /\ parsed.kind = "Some"
    /\ parsed.diagnostic.severity = Cargo_parse_severity(Fields[1])


(***************************************************************************)
(* Properties of `initialize`.                                             *)
(***************************************************************************)
\* the options of the State that `initialize` loads
LoadedState == <<backend, run_bacon_in_background>>

\* a client without diagnostics support is refused with the State untouched
InvalidRequestLeavesTheState ==
  [][initialize_pc' = "InvalidRequest" => UNCHANGED LoadedState]_vars

\* C39: an `initialize` that returns an error, InvalidRequest or
\* InvalidParams, leaves the State as it was before the call: no option that
\* comes before the invalid one is stored.
C39_FailedInitializeLeavesTheState ==
  [][(initialize_pc = "none" /\ initialize_pc' \in {"InvalidRequest", "InvalidParams"})
       => UNCHANGED LoadedState]_vars


(***************************************************************************)
(* Properties of the record boundaries of the LocationsFileReader.         *)
(***************************************************************************)
MarkerKeywords == {"warning", "error", "info", "note", "failure-note", "help"}

BeginsWithKeyword(text) ==
  \E keyword \in MarkerKeywords :
    Len(text) >= Len(keyword) /\ SubSeq(text, 1, Len(keyword)) = keyword

IsSpace(text, k) == SubSeq(text, k, k) \in {" ", "\t", "\r", "\n"}

\* the text up to its last character that is not white space
WithoutTrailingSpace(text) ==
  SubSeq(text, 1,
         CHOOSE n \in 0..Len(text) :
           /\ n = 0 \/ ~ IsSpace(text, n)
           /\ \A k \in (n + 1)..Len(text) : IsSpace(text, k))

\* the text from its first character that is not white space
WithoutLeadingSpace(text) ==
  SubSeq(text,
         CHOOSE n \in 1..(Len(text) + 1) :
           /\ n = Len(text) + 1 \/ ~ IsSpace(text, n)
           /\ \A k \in 1..(n - 1) : IsSpace(text, k),
         Len(text))

\* a step of the reader that takes the next physical line of the file
LineIsRead ==
  /\ rpc = "line"
  /\ lines # <<>>
  /\ Head(lines) # IoError
  /\ lines' = Tail(lines)

\* the record being collected starts anew with the line
StartsARecord == buffer' = WithoutTrailingSpace(Head(lines))

\* the line is joined to the record being collected
ContinuesTheRecord ==
  buffer' = IF buffer = "" THEN WithoutTrailingSpace(Head(lines))
            ELSE buffer \o "\n" \o WithoutTrailingSpace(Head(lines))

\* a marker line that is indented is among the lines that were read
IndentedMarkerLine(text) ==
  /\ ~ BeginsWithKeyword(text)
  /\ BeginsWithKeyword(WithoutLeadingSpace(text))

\* C36 as stated: a record begins exactly at a line whose content without
\* leading and trailing white space starts with a marker keyword, so also at
\* an indented marker line; every other line is joined to the record.
C36_RecordBeginsAtTrimmedMarker ==
  [][LineIsRead =>
       IF BeginsWithKeyword(WithoutLeadingSpace(WithoutTrailingSpace(Head(lines))))
       THEN StartsARecord ELSE ContinuesTheRecord]_vars

\* C36: a record begins exactly at a line that starts with a marker keyword
\* at its first character; every other line, an indented marker line
\* included, is joined without its trailing white space to the record being
\* collected.
C36_RecordBeginsAtMarkerInFirstColumn ==
  [][LineIsRead =>
       IF BeginsWithKeyword(Head(lines))
       THEN StartsARecord ELSE ContinuesTheRecord]_vars

\* the indented `note` line was joined to the record of the warning, and the
\* pass returned the one diagnostic of that record
C36_Witness ==
  /\ rpc = "done"
  /\ files[RootFile].records = <<RecIndented, RecBad>>
  /\ workspace_folders = <<RootDir>>
  /\ ~ files[SubFile].readable
  /\ Len(diagnostics) = 2
  /\ diagnostics[1].diagnostic.message = "unused\n  note: by default"
  /\ diagnostics[2].diagnostic.message = "bad code"


\* the words of the configured command arguments
ConfiguredWords ==
  [command_args \in CommandArguments |->
     IF command_args = "check --message-format=json"
     THEN <<"check", "--message-format=json">>
     ELSE <<"clippy", "--workspace", "--message-format=json">>]

\* the Command of the child that was run, with what it was built from
ChildWasRun == child_command # None

\* C31: the argument list passed to the child is the configured command
\* arguments followed by --manifest-path and the Cargo.toml of the build
\* directory.
C31_ArgumentsEndWithManifestPath ==
  ChildWasRun =>
    \E command_args \in CommandArguments, destination_folder \in DestinationFolders :
      /\ child_command[1].current_dir = destination_folder
      /\ Len(child_command[1].args) >= 2
      /\ SubSeq(child_command[1].args, Len(child_command[1].args) - 1,
                Len(child_command[1].args))
           = <<"--manifest-path", destination_folder \o "/Cargo.toml">>
      /\ join(SubSeq(child_command[1].args, 1, Len(child_command[1].args) - 2), " ")
           = join(ConfiguredWords[command_args], " ")

\* the child is run in the build directory with the words of the configured
\* command arguments, and with nothing else
ChildRunsTheConfiguredWords ==
  ChildWasRun =>
    \E command_args \in CommandArguments :
      /\ child_command[1].args = ConfiguredWords[command_args]
      /\ child_command[1].current_dir \in DestinationFolders


(***************************************************************************)
(* Properties of a pass and the lifecycle events that run beside it.       *)
(***************************************************************************)
\* the publish the steady loop has just made, in a step that made one
PassPublishes == Len(pass_published') = Len(pass_published) + 1
JustPublished == pass_published'[Len(pass_published')].uri

\* C37: a pass publishes only for documents that are in the open-document
\* set at the moment of the publish; a document closed, deleted or renamed
\* away during the pass receives no publish from it.
C37_PassPublishesOnlyOpenDocuments ==
  [][PassPublishes => JustPublished \in open_files']_vars

\* C37, amended: a pass publishes only for documents of the set it cloned
\* under the read lock when it started, each of them once when a client is
\* connected, whatever has happened to the open-document set since.
C37_PassPublishesOnlyClonedDocuments ==
  /\ PublishedInPass \subseteq pass_open
  /\ Len(pass_published) = Cardinality(PublishedInPass)
  /\ (sync_pc = "publish" /\ client) =>
       PublishedInPass \cup {pass_files[k] : k \in 1..Len(pass_files)} = pass_open

\* a pass has published for a document that was closed, deleted or renamed
\* away after the pass had cloned the set
C37_Witness ==
  /\ sync_pc = "publish"
  /\ pass_files = <<>>
  /\ pass_published # <<>>
  /\ \E k \in 1..Len(pass_published) :
       /\ pass_published[k].uri \notin open_files
       /\ last_publish # None
       /\ last_publish[1].uri = pass_published[k].uri
       /\ last_publish[1].by = "steady loop"


(***************************************************************************)
(* Properties of the open-document set.                                    *)
(***************************************************************************)
\* what a notification does to the open-document set: did_open adds the
\* document, did_close and did_delete_files remove it, did_rename_files
\* removes the old one and adds the new one, any other leaves the set
after(notification, set) ==
  IF notification.method = "did_open" THEN set \cup {notification.uri}
  ELSE IF notification.method \in {"did_close", "did_delete_files"}
  THEN set \ {notification.uri}
  ELSE IF notification.method = "did_rename_files"
  THEN (set \ {notification.uri}) \cup {notification.new_uri}
  ELSE set

\* a notification was handled in the step: its handler held the lock
IsHandled == notified' = notified + 1

\* C35: the open-document set is the result of applying the lifecycle
\* notifications in the order their handlers took the lock: each of them
\* changes the set as its kind says, and no other step does (did_save,
\* did_change, the steps of a pass, of `shutdown`, a rewrite of the export
\* file, the send of a publish)
C35_OpenSetFollowsLifecycle ==
  [][/\ IsHandled => open_files' = after(last_notification'[1], open_files)
     /\ ~ IsHandled => open_files' = open_files]_vars

\* three notifications were handled while the steady loop was in a pass: a
\* document was opened and renamed to the other one, which was then saved,
\* and the set holds the other one alone
C35_Witness ==
  /\ notified = 3
  /\ last_notification = Some(Notification("did_save", DocB))
  /\ open_files = {DocB}
  /\ sync_pc = "publish"
  /\ pass_open = {DocA}


(***************************************************************************)
(* Properties of the publishes of handlers and passes for one document.    *)
(***************************************************************************)
\* nothing is in progress: the steady loop waits in its select, no batch
\* waits in the channel and no handler is between its read and its send
Quiescent == sync_pc = "select" /\ rx = <<>> /\ pending = None

\* the latest publish the client received is for an open document and is
\* not what the export files hold for it
LastPublishIsStale ==
  /\ last_publish # None
  /\ last_publish[1].uri \in open_files
  /\ last_publish[1].diagnostics # export[last_publish[1].uri]

\* C38: once the export files have stopped changing and every pass and
\* handler has finished, the last diagnostics published for an open document
\* are those of the final contents of the export files: no publish a handler
\* computed from older contents is delivered after the publish of a pass
\* that read newer ones.
C38_LastPublishIsOfFinalContents == Quiescent => ~ LastPublishIsStale

\* a stale last publish is never the publish of a pass: it is the publish of
\* a handler, sent after the pass that read the newer contents had published
StaleIsAHandlersPublish ==
  (Quiescent /\ LastPublishIsStale) =>
     /\ last_publish[1].by \in {"did_open", "did_save", "did_rename_files"}
     /\ last_publish[1].version = None
     /\ batches > 0


(***************************************************************************)
(* Properties of the end of the session.                                   *)
(***************************************************************************)
\* the handler of `shutdown` is polled like the tasks: a step of it that
\* stays possible is taken
ShutdownRuns ==
  /\ WF_vars(ShutdownJoinedBacon)
  /\ WF_vars(ShutdownTakeSync)
  /\ WF_vars(ShutdownJoinedSync)
  /\ WF_vars(ShutdownReturns)

ShutdownInProgress == shutdown_pc \in {"join_bacon", "sync_handle", "join_sync", "log"}

\* C33: a call of `shutdown` eventually returns, with every task ended,
\* whatever the tasks were doing when it was called
C33_ShutdownTerminates ==
  ShutdownRuns =>
    (ShutdownInProgress ~> (shutdown_pc = "returned" /\ EverythingStopped))

\* `shutdown` waits for the synchronization task while it holds the write
\* lock, and the task waits for the read lock: neither moves again
ShutdownAndSyncWaitForEachOther ==
  /\ shutdown_pc = "join_sync"
  /\ state_writer = "shutdown"
  /\ sync_pc \in {"start", "lock"}

\* once they wait for each other they do so for ever
WaitForEachOtherIsForEver ==
  [][ShutdownAndSyncWaitForEachOther => ShutdownAndSyncWaitForEachOther']_vars

\* C34: after the cancellation every wait of a task stops: the wait of the
\* supervisor for the child, the wait of the steady loop in its select, and
\* the retries of the registration of the watcher while the path is missing
C34_EveryWaitObservesCancellation ==
  /\ (cancel_token /\ supervisor = "waiting") ~> (supervisor = "finished")
  /\ (cancel_token /\ sync_pc = "select") ~> (sync_pc # "select")
  /\ (cancel_token /\ sync_pc \in {"watch", "sleep"}) ~> (sync_pc \notin {"watch", "sleep"})

\* the two waits that are a select with `cancel_token.cancelled()` stop
SelectsObserveCancellation ==
  /\ (cancel_token /\ supervisor = "waiting") ~> (supervisor = "finished")
  /\ (cancel_token /\ sync_pc = "select") ~> (sync_pc # "select")

\* the token is cancelled and the task of Bacon::syncronize_diagnostics goes
\* on between `watcher.watch` and the sleep of a second
RetriesAfterCancellation ==
  /\ cancel_token
  /\ sync_fn = Bacon_syncronize_diagnostics
  /\ ~ path_exists
  /\ sync_pc \in {"watch", "sleep"}

\* while the path is missing the retries go on after the cancellation
RetriesGoOnAfterCancellation ==
  [][(RetriesAfterCancellation /\ ~ path_exists') => RetriesAfterCancellation']_vars


(***************************************************************************)
(* Properties of one pass after another.                                   *)
(***************************************************************************)
\* a second pass has returned
SecondPassReturned == rpc = "done" /\ earlier # None

\* the second pass read the files the first had read, listed in the same order
FilesAsBefore ==
  files = earlier[1].files /\ bacon_locations = earlier[1].bacon_locations

\* C32: a pass rebuilds the diagnostics of the document from scratch: what
\* it returns is what the export files hold when it reads them and nothing
\* of an earlier pass, so a pass over unchanged files returns the list of
\* the pass before, and the diagnostic of a record that was removed, and
\* that no record left in the files yields, is not in the list of the next pass
C32_PassRebuildsFromScratch ==
  SecondPassReturned =>
    /\ IdentitiesOf(diagnostics) = ContributionsOfReadableFiles
    /\ FilesAsBefore => diagnostics = earlier[1].diagnostics

\* the first pass returned two diagnostics, a record was removed from the
\* first export file, and the second pass returned the other one alone
C32_Witness ==
  /\ SecondPassReturned
  /\ files # earlier[1].files
  /\ Len(earlier[1].diagnostics) = 2
  /\ Len(diagnostics) = 1
  /\ IdentitiesOf(diagnostics) \subseteq IdentitiesOf(earlier[1].diagnostics)

\* two passes over unchanged files returned the same two diagnostics
UnchangedFilesWitness ==
  /\ SecondPassReturned
  /\ FilesAsBefore
  /\ Len(diagnostics) = 2

====
